---------------------------- MODULE Spec2Model ----------------------------
(***************************************************************************)
(* Driver-detection engines of the telecom forecast repository:            *)
(*   - the alignment engine   (detect_add_churn_drivers.py)                *)
(*   - the regime-shift engine (detect_subscription_drivers.py)            *)
(*                                                                         *)
(* Numbers.  The Python code works on float64.  Here every float (a share, *)
(* a correlation, a score, a mean) is a fixed-point integer counted in     *)
(* thousandths, truncated downwards; 0.60 is 600, 1.0 is 1000.  Comparing  *)
(* a truncated value with a threshold that is a whole number of            *)
(* thousandths gives the same answer as comparing the exact value.  Weekly *)
(* counts are plain integers.  NaN is a value of its own; every ordering   *)
(* comparison with NaN is false, as in IEEE arithmetic.                    *)
(***************************************************************************)
EXTENDS Integers, Sequences, FiniteSets, TLC

VARIABLES
    call,    \* the function last called
    arg,     \* what it was given
    ret,     \* what it returned
    tables,  \* the tables a TelecomAgent holds (self.master_df and the four frames)
    loaded,  \* the tables as the constructor loaded them
    pc,      \* the position of the agent inside the method it is running
    locals,  \* the local variables of that method
    trace,   \* the calls that method has made so far, in order
    seen     \* the first driver result of each analysis, the methods started and
             \* the detections run

agentVars == <<tables, loaded, pc, locals, trace, seen>>

vars == <<call, arg, ret, tables, loaded, pc, locals, trace, seen>>

(***************************************************************************)
(* Numeric helpers                                                         *)
(***************************************************************************)

\* np.nan / float("nan"): a value outside every range the model uses
NaN == -1000000

\* Python None (a metric that was NaN is reported as None)
NoneVal == -2000000

\* thousandths per unit: three decimal places
Scale == 10 * 10 * 10

Min2(a, b) == IF a <= b THEN a ELSE b

Max2(a, b) == IF a >= b THEN a ELSE b

\* faulty variant of >= on floats: an undefined operand passes
Geq_NaNPasses(a, b) == a = NaN \/ b = NaN \/ a >= b

\* a >= b on floats: False as soon as one side is NaN
Geq(a, b) == a # NaN /\ b # NaN /\ a >= b

\* a > b on floats
Gt(a, b) == a # NaN /\ b # NaN /\ a > b

\* a / b truncated towards zero, b > 0
DivTrunc(a, b) == IF a >= 0 THEN a \div b ELSE -((-a) \div b)

\* faulty variant of the float subtraction: an undefined operand counts as 0
FSub_NaNAsZero(a, b) == (IF a = NaN THEN 0 ELSE a) - (IF b = NaN THEN 0 ELSE b)

\* a - b on floats
FSub(a, b) == IF a = NaN \/ b = NaN THEN NaN ELSE a - b

RECURSIVE SumSeq(_)
SumSeq(s) == IF s = <<>> THEN 0 ELSE Head(s) + SumSeq(Tail(s))

\* the elements of s that satisfy Keep, in order
SelectNum(s) == SelectSeq(s, LAMBDA x : x # NaN)

\* Series.mean(): NaN cells are skipped; the mean of nothing is NaN
Mean(s) ==
    LET v == SelectNum(s)
    IN IF v = <<>> THEN NaN ELSE SumSeq(v) \div Len(v)

\* Series.tail(n)
TailN(s, n) == IF Len(s) <= n THEN s ELSE SubSeq(s, Len(s) - n + 1, Len(s))

\* column c of a table (a sequence of records)
Col(t, c) == [i \in 1..Len(t) |-> t[i][c]]

RECURSIVE ISqrtBetween(_, _, _)
ISqrtBetween(n, lo, hi) ==
    IF lo >= hi THEN lo
    ELSE LET mid == (lo + hi + 1) \div 2
         IN IF mid * mid <= n THEN ISqrtBetween(n, mid, hi)
            ELSE ISqrtBetween(n, lo, mid - 1)

\* floor of the square root of n, 0 <= n < 2^31
ISqrt(n) == ISqrtBetween(n, 0, Min2(n, 46340))

(***************************************************************************)
(* Rolling windows (pandas Series.rolling(w), min_periods = w)             *)
(***************************************************************************)

\* the window of width w that ends at position i
Window(s, i, w) == SubSeq(s, i - w + 1, i)

HasNaN(s) == \E k \in 1..Len(s) : s[k] = NaN

\* Series.rolling(w).sum(): NaN until the window is full or when a cell is missing
RollingSum(s, w) ==
    [i \in 1..Len(s) |->
        IF i < w \/ HasNaN(Window(s, i, w)) THEN NaN
        ELSE SumSeq(Window(s, i, w))]

\* Series.rolling(w).mean()
RollingMean(s, w) ==
    [i \in 1..Len(s) |->
        IF i < w \/ HasNaN(Window(s, i, w)) THEN NaN
        ELSE SumSeq(Window(s, i, w)) \div w]

Abs(a) == IF a < 0 THEN -a ELSE a

RECURSIVE GCD(_, _)
GCD(a, b) == IF b = 0 THEN Abs(a) ELSE GCD(b, a % Abs(b))

RECURSIVE SeqGCD(_)
SeqGCD(s) == IF s = <<>> THEN 0 ELSE GCD(Head(s), SeqGCD(Tail(s)))

\* the window counted from its first cell, in the largest unit that keeps every
\* cell whole: a correlation does not change under a shift or a change of unit
Centred(xs) ==
    LET c == [k \in 1..Len(xs) |-> xs[k] - xs[1]]
        g == Max2(SeqGCD(c), 1)
    IN [k \in 1..Len(xs) |-> c[k] \div g]

\* Pearson correlation of two equally long windows, in thousandths:
\* cov / sqrt(var_x * var_y); NaN when a window is constant (0/0).  The three
\* sums are taken in their largest common unit, which leaves the quotient as it is
Pearson(xs, ys) ==
    LET n   == Len(xs)
        cx  == Centred(xs)
        cy  == Centred(ys)
        sx  == SumSeq(cx)
        sy  == SumSeq(cy)
        sxx == n * SumSeq([k \in 1..n |-> cx[k] * cx[k]]) - sx * sx
        syy == n * SumSeq([k \in 1..n |-> cy[k] * cy[k]]) - sy * sy
        sxy == n * SumSeq([k \in 1..n |-> cx[k] * cy[k]]) - sx * sy
        g   == Max2(GCD(GCD(sxx, syy), sxy), 1)
    IN IF sxx = 0 \/ syy = 0 THEN NaN
       ELSE DivTrunc(Scale * (sxy \div g), ISqrt((sxx \div g) * (syy \div g)))

\* x.rolling(w).corr(y)
RollingCorr(xs, ys, w) ==
    [i \in 1..Len(xs) |->
        IF i < w \/ HasNaN(Window(xs, i, w)) \/ HasNaN(Window(ys, i, w)) THEN NaN
        ELSE Pearson(Window(xs, i, w), Window(ys, i, w))]

(***************************************************************************)
(* Alignment engine: configuration (detect_add_churn_drivers.py)           *)
(***************************************************************************)

ROLLING_WINDOW == 4

CORR_WINDOW == 8

MIN_POINTS == 12

\* 0.60
CORR_ALIGNED == 600

\* 0.10
SHARE_MIN == 100

\* 0.65
SCORE_ALIGNED == 650

\* the literal 0.80 of the confidence buckets
SCORE_HIGH == 800

\* corr_weight = 0.7 and share_weight = 0.3, in tenths
CORR_WEIGHT == 7

SHARE_WEIGHT == 3

(***************************************************************************)
(* Alignment engine: helpers                                               *)
(***************************************************************************)

\* faulty variant of _safe_div: a zero denominator gives a share of 0
SafeDiv_ZeroFill(n, d) == IF d = 0 THEN 0 ELSE (Scale * n) \div d

\* np.where(d == 0, nan, n / d) on one cell
SafeDiv(n, d) == IF d = 0 THEN NaN ELSE (Scale * n) \div d

\* faulty variant of _alignment_score: the share is not clamped to [0, 1]
AlignmentScore_NoClamp(corr, share) ==
    LET twice_corr_component == IF corr = NoneVal \/ corr = NaN THEN 0 ELSE corr + Scale
        share_component == IF share = NoneVal \/ share = NaN THEN 0 ELSE share
    IN (CORR_WEIGHT * twice_corr_component + 2 * SHARE_WEIGHT * share_component) \div 20

\* _alignment_score: corr_weight * (corr + 1) / 2 + share_weight * clamp(share, 0, 1);
\* the halving and the two tenths are applied in one division so nothing is lost
AlignmentScore(corr, share) ==
    LET twice_corr_component == IF corr = NoneVal \/ corr = NaN THEN 0 ELSE corr + Scale
        share_component == IF share = NoneVal \/ share = NaN THEN 0
                           ELSE Min2(Max2(share, 0), Scale)
    IN (CORR_WEIGHT * twice_corr_component + 2 * SHARE_WEIGHT * share_component) \div 20

\* the name of the rolling-sum column of a column, f"{col}_rw"
RwCol(col) ==
    CASE col = "adds" -> "adds_rw"
      [] col = "churn" -> "churn_rw"
      [] col = "is_retail" -> "is_retail_rw"
      [] col = "is_competitive" -> "is_competitive_rw"
      [] col = "is_portin" -> "is_portin_rw"

\* row r put into the sorted table t after every row whose key is not greater
RECURSIVE InsertSorted(_, _, _)
InsertSorted(t, r, col) ==
    IF t = <<>> THEN <<r>>
    ELSE IF t[Len(t)][col] <= r[col] THEN Append(t, r)
    ELSE Append(InsertSorted(SubSeq(t, 1, Len(t) - 1), r, col), t[Len(t)])

\* faulty variant of sort_values: the rows stay in the order they came in
SortValues_KeepOrder(df, col) == df

\* DataFrame.sort_values(col): ascending, rows with equal keys keep their order
RECURSIVE SortValues(_, _)
SortValues(df, col) ==
    IF df = <<>> THEN <<>>
    ELSE InsertSorted(SortValues(SubSeq(df, 1, Len(df) - 1), col), df[Len(df)], col)

\* faulty variant of the smoothing: rolling(4, min_periods=0), the sum of the cells
\* present in a window however few they are, so that no row is dropped
SmoothedRows_NoDrop(df, date_col, target_col, driver_col) ==
    LET sorted == SortValues(df, date_col)
        Partial(s) == [i \in 1..Len(s) |->
                         SumSeq(SelectNum(SubSeq(s, Max2(1, i - ROLLING_WINDOW + 1), i)))]
        t_rw   == Partial(Col(sorted, target_col))
        d_rw   == Partial(Col(sorted, driver_col))
    IN [i \in 1..Len(sorted) |->
          sorted[i] @@ (RwCol(target_col) :> t_rw[i]) @@ (RwCol(driver_col) :> d_rw[i])]

\* _build_spine up to the dropna: the sorted copy with its two rolling sums,
\* rows whose rolling sum is undefined dropped
SmoothedRows(df, date_col, target_col, driver_col) ==
    LET sorted == SortValues(df, date_col)
        t_rw   == RollingSum(Col(sorted, target_col), ROLLING_WINDOW)
        d_rw   == RollingSum(Col(sorted, driver_col), ROLLING_WINDOW)
        all    == [i \in 1..Len(sorted) |->
                     sorted[i] @@ (RwCol(target_col) :> t_rw[i])
                               @@ (RwCol(driver_col) :> d_rw[i])]
    IN SelectSeq(all, LAMBDA r : r[RwCol(target_col)] # NaN /\ r[RwCol(driver_col)] # NaN)

\* the value _build_spine returns for "not enough rows"
NoSpine == <<>>

\* faulty variant of _build_spine: the floor is applied to the rows of the table
\* instead of the rows left after smoothing
BuildSpine_RawLen(df, date_col, target_col, driver_col) ==
    LET spine == SmoothedRows(df, date_col, target_col, driver_col)
        t_rw  == Col(spine, RwCol(target_col))
        d_rw  == Col(spine, RwCol(driver_col))
        corr  == RollingCorr(d_rw, t_rw, CORR_WINDOW)
    IN IF Len(df) < MIN_POINTS THEN NoSpine
       ELSE [i \in 1..Len(spine) |->
               spine[i] @@ ("driver_share" :> SafeDiv(d_rw[i], t_rw[i]))
                        @@ ("rolling_corr" :> corr[i])]

\* faulty variant of _build_spine: the correlation runs over the smoothing window
\* (4 rows) instead of the correlation window (8 rows)
BuildSpine_ShortCorr(df, date_col, target_col, driver_col) ==
    LET spine == SmoothedRows(df, date_col, target_col, driver_col)
        t_rw  == Col(spine, RwCol(target_col))
        d_rw  == Col(spine, RwCol(driver_col))
        corr  == RollingCorr(d_rw, t_rw, ROLLING_WINDOW)
    IN IF Len(spine) < MIN_POINTS THEN NoSpine
       ELSE [i \in 1..Len(spine) |->
               spine[i] @@ ("driver_share" :> SafeDiv(d_rw[i], t_rw[i]))
                        @@ ("rolling_corr" :> corr[i])]

\* _build_spine
BuildSpine(df, date_col, target_col, driver_col) ==
    LET spine == SmoothedRows(df, date_col, target_col, driver_col)
        t_rw  == Col(spine, RwCol(target_col))
        d_rw  == Col(spine, RwCol(driver_col))
        corr  == RollingCorr(d_rw, t_rw, CORR_WINDOW)
    IN IF Len(spine) < MIN_POINTS THEN NoSpine
       ELSE [i \in 1..Len(spine) |->
               spine[i] @@ ("driver_share" :> SafeDiv(d_rw[i], t_rw[i]))
                        @@ ("rolling_corr" :> corr[i])]

\* faulty variant of the effect of _build_spine on its argument: without the
\* copy, the sort, the rolling columns and the dropna land in the caller's table
TableAfterBuildSpine_InPlace(df, date_col, target_col, driver_col) ==
    SmoothedRows(df, date_col, target_col, driver_col)

\* the table the caller holds once _build_spine has run: spine = df.copy()... works
\* on a copy, every later assignment goes to the copy
TableAfterBuildSpine(df, date_col, target_col, driver_col) == df

\* float(x) if not np.isnan(x) else None
NoneIfNaN(x) == IF x = NaN THEN NoneVal ELSE x

\* faulty variant of the gates: the share gate is left out
Aligned_NoShareGate(avg_corr_recent, share_recent, score) ==
    /\ Geq(avg_corr_recent, CORR_ALIGNED)
    /\ Geq(score, SCORE_ALIGNED)

\* the three gates of _summarize_alignment
Aligned(avg_corr_recent, share_recent, score) ==
    /\ Geq(avg_corr_recent, CORR_ALIGNED)
    /\ Geq(share_recent, SHARE_MIN)
    /\ Geq(score, SCORE_ALIGNED)

\* faulty variant of the buckets: graded on the score alone
Confidence_ScoreOnly(aligned, score) ==
    IF Geq(score, SCORE_HIGH) THEN "high"
    ELSE IF Geq(score, SCORE_ALIGNED) THEN "medium"
    ELSE "low"

\* the confidence buckets of _summarize_alignment
Confidence(aligned, score) ==
    IF aligned /\ Geq(score, SCORE_HIGH) THEN "high"
    ELSE IF aligned THEN "medium"
    ELSE "low"

\* _summarize_alignment: <<aligned, confidence, metrics>>
SummarizeAlignment(spine, target_rw_col, driver_rw_col) ==
    LET corr_col == Col(spine, "rolling_corr")
        share_col == Col(spine, "driver_share")
        recent_corr == IF Len(spine) > 0 THEN corr_col[Len(spine)] ELSE NaN
        avg_corr_recent == IF Len(spine) >= CORR_WINDOW
                           THEN Mean(TailN(corr_col, CORR_WINDOW))
                           ELSE Mean(corr_col)
        share_recent == IF Len(spine) >= CORR_WINDOW
                        THEN Mean(TailN(share_col, CORR_WINDOW))
                        ELSE Mean(share_col)
        share_latest == share_col[Len(spine)]
        target_level_recent ==
            Mean([i \in 1..Len(TailN(spine, CORR_WINDOW)) |->
                    Scale * TailN(spine, CORR_WINDOW)[i][target_rw_col]])
        driver_level_recent ==
            Mean([i \in 1..Len(TailN(spine, CORR_WINDOW)) |->
                    Scale * TailN(spine, CORR_WINDOW)[i][driver_rw_col]])
        score == AlignmentScore(avg_corr_recent, share_recent)
        aligned == Aligned(avg_corr_recent, share_recent, score)
    IN << aligned,
          Confidence(aligned, score),
          [ corr_latest |-> NoneIfNaN(recent_corr),
            corr_recent_avg |-> NoneIfNaN(avg_corr_recent),
            share_latest |-> NoneIfNaN(share_latest),
            share_recent_avg |-> NoneIfNaN(share_recent),
            alignment_score |-> score,
            target_level_recent |-> target_level_recent,
            driver_level_recent |-> driver_level_recent ] >>

\* the body shared by the three alignment checks
AlignmentCheck(df, driver_name, target_col, driver_col) ==
    LET spine == BuildSpine(df, "week_start", target_col, driver_col)
        s == SummarizeAlignment(spine, RwCol(target_col), RwCol(driver_col))
    IN IF spine = NoSpine
       THEN [ driver |-> driver_name, aligned |-> FALSE, confidence |-> "low",
              reason |-> "Insufficient data" ]
       ELSE [ driver |-> driver_name, aligned |-> s[1], confidence |-> s[2],
              metrics |-> s[3] ]

\* _detect_postpaid_add_driver
DetectPostpaidAddDriver(df) == AlignmentCheck(df, "retail_add_growth", "adds", "is_retail")

\* _detect_postpaid_churn_driver
DetectPostpaidChurnDriver(df) ==
    AlignmentCheck(df, "competitive_churn_spike", "churn", "is_competitive")

\* _detect_prepaid_add_driver
DetectPrepaidAddDriver(df) == AlignmentCheck(df, "portin_add_growth", "adds", "is_portin")

\* faulty variant of the stub: the empty metrics are left out
DetectPrepaidChurnDriver_NoMetrics(df) ==
    [ driver |-> "no_structural_driver_detected", aligned |-> FALSE, confidence |-> "low" ]

\* _detect_prepaid_churn_driver: a constant, whatever the table holds
DetectPrepaidChurnDriver(df) ==
    [ driver |-> "no_structural_driver_detected", aligned |-> FALSE,
      confidence |-> "low", metrics |-> <<>> ]

\* faulty variant of the composite: the prepaid churn slot runs the churn check of
\* the postpaid segment instead of the stub
DetectAddChurnDrivers_ChurnCheck(postpaid_add_df, postpaid_churn_df, prepaid_add_df, prepaid_churn_df) ==
    [ add_churn_driver_analysis |->
        [ postpaid |-> [ adds |-> DetectPostpaidAddDriver(postpaid_add_df),
                         churn |-> DetectPostpaidChurnDriver(postpaid_churn_df) ],
          prepaid |-> [ adds |-> DetectPrepaidAddDriver(prepaid_add_df),
                        churn |-> DetectPostpaidChurnDriver(prepaid_churn_df) ] ] ]

\* detect_add_churn_drivers
DetectAddChurnDrivers(postpaid_add_df, postpaid_churn_df, prepaid_add_df, prepaid_churn_df) ==
    [ add_churn_driver_analysis |->
        [ postpaid |-> [ adds |-> DetectPostpaidAddDriver(postpaid_add_df),
                         churn |-> DetectPostpaidChurnDriver(postpaid_churn_df) ],
          prepaid |-> [ adds |-> DetectPrepaidAddDriver(prepaid_add_df),
                        churn |-> DetectPrepaidChurnDriver(prepaid_churn_df) ] ] ]

(***************************************************************************)
(* Regime-shift engine: configuration (detect_subscription_drivers.py)     *)
(***************************************************************************)

\* 0.15
PREMIUM_REGIME_THRESHOLD == 150

\* 0.10
PREPAID_STRONG_SHARE_DELTA == 100

\* 1.2
PREPAID_STRONG_ADDS_RATIO == 1200

\* 0.6
PREPAID_STRONG_CORR == 600

\* 0.05
POSTPAID_STRONG_SHARE_DELTA == 50

\* 1.2
POSTPAID_STRONG_ADDS_RATIO == 1200

\* 0.5
POSTPAID_STRONG_CORR == 500

\* the literal 50 of _is_high_tier (gigabytes)
HIGH_TIER_GB == 50

\* rolling(4) of both detectors
REGIME_ROLLING == 4

\* rolling(6) of both detectors
REGIME_CORR_WINDOW == 6

\* len(spine) < 8 of the prepaid detector
PREPAID_MIN_ROWS == 8

\* len(post) < 4 of the prepaid detector
PREMIUM_MIN_POST == 4

\* len(spine) < 16 of the postpaid detector
POSTPAID_MIN_ROWS == 16

\* tail(8) and iloc[-16:-8] of the postpaid detector
POSTPAID_REGIME_WEEKS == 8

(***************************************************************************)
(* Product names are sequences of one-character strings.                   *)
(***************************************************************************)

\* a missing product name (None / NaN in the column)
NoName == <<"NA">>

UpperCase == <<"A", "B", "C", "D", "E", "F", "G", "H", "I", "J", "K", "L", "M",
               "N", "O", "P", "Q", "R", "S", "T", "U", "V", "W", "X", "Y", "Z">>

LowerCase == <<"a", "b", "c", "d", "e", "f", "g", "h", "i", "j", "k", "l", "m",
               "n", "o", "p", "q", "r", "s", "t", "u", "v", "w", "x", "y", "z">>

Digits == <<"0", "1", "2", "3", "4", "5", "6", "7", "8", "9">>

LowerChar(c) ==
    IF \E k \in 1..26 : UpperCase[k] = c
    THEN LowerCase[CHOOSE k \in 1..26 : UpperCase[k] = c]
    ELSE c

\* str.lower()
Lower(name) == [k \in 1..Len(name) |-> LowerChar(name[k])]

\* pat in name
Contains(name, pat) ==
    \E k \in 1..(Len(name) - Len(pat) + 1) : SubSeq(name, k, k + Len(pat) - 1) = pat

IsDigit(c) == \E k \in 1..10 : Digits[k] = c

DigitValue(c) == (CHOOSE k \in 1..10 : Digits[k] = c) - 1

\* int() of a run of digits
RECURSIVE IntOf(_)
IntOf(ds) == IF ds = <<>> THEN 0 ELSE 10 * IntOf(SubSeq(ds, 1, Len(ds) - 1)) + DigitValue(ds[Len(ds)])

\* the last position of the run of digits that starts at k
RECURSIVE RunEnd(_, _)
RunEnd(name, k) ==
    IF k < Len(name) /\ IsDigit(name[k + 1]) THEN RunEnd(name, k + 1) ELSE k

\* re.search(r'(\d+)gb', name): the leftmost position where digits followed by
\* "gb" start; the group is greedy, so it runs to the end of the digits
GbMatchStarts(name) ==
    { k \in 1..Len(name) :
        /\ IsDigit(name[k])
        /\ RunEnd(name, k) + 2 <= Len(name)
        /\ name[RunEnd(name, k) + 1] = "g"
        /\ name[RunEnd(name, k) + 2] = "b" }

SetMin(S) == CHOOSE x \in S : \A y \in S : x <= y

\* _extract_gb: [kind |-> "none"], [kind |-> "unlimited"] or [kind |-> "int", gb |-> n]
ExtractGb(product_name) ==
    IF product_name = NoName THEN [kind |-> "none"]
    ELSE LET name == Lower(product_name)
             starts == GbMatchStarts(name)
             k == SetMin(starts)
         IN IF Contains(name, <<"u", "n", "l", "i", "m", "i", "t", "e", "d">>)
            THEN [kind |-> "unlimited"]
            ELSE IF starts # {}
            THEN [kind |-> "int", gb |-> IntOf(SubSeq(name, k, RunEnd(name, k)))]
            ELSE [kind |-> "none"]

\* faulty variant of _is_high_tier: a plan of exactly 50 GB counts as premium
IsHighTier_AtLeast50(product_name) ==
    LET gb == ExtractGb(product_name)
    IN IF gb.kind = "unlimited" THEN TRUE
       ELSE IF gb.kind = "int" /\ gb.gb >= HIGH_TIER_GB THEN TRUE
       ELSE FALSE

\* _is_high_tier
IsHighTier(product_name) ==
    LET gb == ExtractGb(product_name)
    IN IF gb.kind = "unlimited" THEN TRUE
       ELSE IF gb.kind = "int" /\ gb.gb > HIGH_TIER_GB THEN TRUE
       ELSE FALSE

\* str.contains(r"(basic|save|4all|lifeline)", case=False, regex=True, na=False)
IsValueTier(product_name) ==
    IF product_name = NoName THEN FALSE
    ELSE LET name == Lower(product_name)
         IN \/ Contains(name, <<"b", "a", "s", "i", "c">>)
            \/ Contains(name, <<"s", "a", "v", "e">>)
            \/ Contains(name, <<"4", "a", "l", "l">>)
            \/ Contains(name, <<"l", "i", "f", "e", "l", "i", "n", "e">>)

(***************************************************************************)
(* Regime-shift engine: weekly spine                                       *)
(***************************************************************************)

\* the elements of a set of integers in ascending order
RECURSIVE SortedSeq(_)
SortedSeq(S) == IF S = {} THEN <<>> ELSE <<SetMin(S)>> \o SortedSeq(S \ {SetMin(S)})

\* faulty variant of the weekly count: the records of a week are counted, not
\* its distinct identifiers (count() instead of nunique())
WeeklyUnique_CountRows(df) ==
    [w \in {df[i].week_start : i \in 1..Len(df)} |->
        Cardinality({j \in 1..Len(df) : df[j].week_start = w})]

\* df.groupby("week_start")["unique_subscription_id"].nunique() as a function
\* from the weeks that occur to their number of distinct identifiers
WeeklyUnique(df) ==
    [w \in {df[i].week_start : i \in 1..Len(df)} |->
        Cardinality({df[i].unique_subscription_id : i \in {j \in 1..Len(df) : df[j].week_start = w}})]

\* the flag column of a detector: high_tier_flag or value_flag
TierFlag(tier, product_name) ==
    IF tier = "high" THEN IsHighTier(product_name) ELSE IsValueTier(product_name)

\* df[df[flag]]: the rows whose product name carries the flag; the flag is worked
\* out once for each name that occurs
FlaggedRows(df, tier) ==
    LET flag == [n \in {df[i].product_name : i \in 1..Len(df)} |-> TierFlag(tier, n)]
    IN SelectSeq(df, LAMBDA r : flag[r.product_name])

\* weekly_total.merge(weekly_flagged, how="left").fillna(0).sort_values("week_start"):
\* one row per week that occurs, a week without a flagged record counting 0
WeeklyTable(weekly_total, weekly_flag) ==
    LET weeks == SortedSeq(DOMAIN weekly_total)
    IN [i \in 1..Len(weeks) |->
          [ week_start  |-> weeks[i],
            total_adds  |-> weekly_total[weeks[i]],
            driver_adds |-> IF weeks[i] \in DOMAIN weekly_flag THEN weekly_flag[weeks[i]] ELSE 0 ]]

\* the weekly share of the flagged tier: driver_adds / total_adds
WithShare(weekly) ==
    [i \in 1..Len(weekly) |->
        [ week_start  |-> weekly[i].week_start,
          total_adds  |-> weekly[i].total_adds,
          driver_adds |-> weekly[i].driver_adds,
          share       |-> (Scale * weekly[i].driver_adds) \div weekly[i].total_adds ]]

\* adds_4w = total_adds.rolling(4).sum(), share_4w = share.rolling(4).mean()
WithRolling(weekly) ==
    LET adds_4w  == RollingSum(Col(weekly, "total_adds"), REGIME_ROLLING)
        share_4w == RollingMean(Col(weekly, "share"), REGIME_ROLLING)
    IN [i \in 1..Len(weekly) |->
          [ week_start  |-> weekly[i].week_start,
            total_adds  |-> weekly[i].total_adds,
            driver_adds |-> weekly[i].driver_adds,
            adds_4w     |-> adds_4w[i],
            share       |-> weekly[i].share,
            share_4w    |-> share_4w[i] ]]

\* the weekly spine of a detector: the merged weekly table with its rolling
\* columns, without the rows whose windows are not full (dropna)
RegimeSpine(df, tier) ==
    SelectSeq(WithRolling(WithShare(WeeklyTable(WeeklyUnique(df),
                                                WeeklyUnique(FlaggedRows(df, tier))))),
              LAMBDA r : r.adds_4w # NaN /\ r.share_4w # NaN)

\* mean of the adds_4w column, a float
MeanAdds(rows) == Mean([i \in 1..Len(rows) |-> Scale * rows[i].adds_4w])

\* faulty variant of adds_ratio: the earlier regime over the later one
AddsRatio_Inverted(avg_adds_later, avg_adds_earlier) ==
    IF Gt(avg_adds_earlier, 0)
    THEN (IF avg_adds_later = NaN THEN NaN ELSE (Scale * avg_adds_earlier) \div avg_adds_later)
    ELSE 0

\* avg_later / avg_earlier if avg_earlier > 0 else 0
AddsRatio(avg_adds_later, avg_adds_earlier) ==
    IF Gt(avg_adds_earlier, 0)
    THEN (IF avg_adds_later = NaN THEN NaN ELSE (Scale * avg_adds_later) \div avg_adds_earlier)
    ELSE 0

\* faulty variant of the recent correlation: the 8-week window of the alignment engine
RecentCorr_Window8(spine) ==
    RollingCorr(Col(spine, "share_4w"), Col(spine, "adds_4w"), CORR_WINDOW)[Len(spine)]

\* spine["share_4w"].rolling(6).corr(spine["adds_4w"]).iloc[-1]
RecentCorr(spine) ==
    RollingCorr(Col(spine, "share_4w"), Col(spine, "adds_4w"), REGIME_CORR_WINDOW)[Len(spine)]

\* faulty variant of the gates: the volume gate is left out
Detected_NoRatioGate(share_delta, adds_ratio, recent_corr, min_delta, min_ratio, min_corr) ==
    /\ Geq(share_delta, min_delta)
    /\ Geq(recent_corr, min_corr)

\* the three gates of a regime-shift detector
Detected(share_delta, adds_ratio, recent_corr, min_delta, min_ratio, min_corr) ==
    /\ Geq(share_delta, min_delta)
    /\ Geq(adds_ratio, min_ratio)
    /\ Geq(recent_corr, min_corr)

\* faulty variant of the grade: the "medium" of the alignment engine for a negative
RegimeConfidence_Medium(detected) == IF detected THEN "high" ELSE "medium"

\* "high" if detected else "low"
RegimeConfidence(detected) == IF detected THEN "high" ELSE "low"

\* _detect_prepaid_driver, from the regime split on: the means of both regimes,
\* the three gates, the result
PremiumRegime(pre, post, recent_corr) ==
    LET avg_adds_pre  == MeanAdds(pre)
        avg_adds_post == MeanAdds(post)
        avg_high_pre  == Mean(Col(pre, "share_4w"))
        avg_high_post == Mean(Col(post, "share_4w"))
        adds_ratio  == AddsRatio(MeanAdds(post), MeanAdds(pre))
        share_delta == FSub(Mean(Col(post, "share_4w")), Mean(Col(pre, "share_4w")))
        detected == Detected(FSub(Mean(Col(post, "share_4w")), Mean(Col(pre, "share_4w"))),
                             AddsRatio(MeanAdds(post), MeanAdds(pre)), recent_corr,
                             PREPAID_STRONG_SHARE_DELTA, PREPAID_STRONG_ADDS_RATIO,
                             PREPAID_STRONG_CORR)
    IN [ segment |-> "prepaid", driver |-> "premium_shift", detected |-> detected,
         confidence |-> RegimeConfidence(detected),
         metrics |-> [ adds_ratio |-> adds_ratio, share_delta |-> share_delta,
                       recent_correlation |-> recent_corr,
                       avg_adds_pre |-> avg_adds_pre, avg_adds_post |-> avg_adds_post,
                       high_share_pre |-> avg_high_pre, high_share_post |-> avg_high_post ] ]

\* faulty variant of the row guards: the floor of 8 smoothed weeks is left out
PrepaidFromSplit_NoRowFloor(spine, post) ==
    IF Len(post) < PREMIUM_MIN_POST
    THEN [ segment |-> "prepaid", detected |-> FALSE, reason |-> "No premium regime" ]
    ELSE PremiumRegime(SelectSeq(spine, LAMBDA r : r.share_4w < PREMIUM_REGIME_THRESHOLD),
                       post, RecentCorr(spine))

\* _detect_prepaid_driver, from the premium regime split on: the two row guards
PrepaidFromSplit(spine, post) ==
    IF Len(spine) < PREPAID_MIN_ROWS
    THEN [ segment |-> "prepaid", detected |-> FALSE, reason |-> "Insufficient data" ]
    ELSE IF Len(post) < PREMIUM_MIN_POST
    THEN [ segment |-> "prepaid", detected |-> FALSE, reason |-> "No premium regime" ]
    ELSE PremiumRegime(SelectSeq(spine, LAMBDA r : r.share_4w < PREMIUM_REGIME_THRESHOLD),
                       post, RecentCorr(spine))

\* _detect_prepaid_driver, from the weekly spine on
PrepaidFromSpine(spine) ==
    PrepaidFromSplit(spine, SelectSeq(spine, LAMBDA r : r.share_4w >= PREMIUM_REGIME_THRESHOLD))

\* _detect_prepaid_driver
DetectPrepaidDriver(master_df) ==
    IF SelectSeq(master_df, LAMBDA r : r.segment = "prepaid") = <<>>
    THEN [ segment |-> "prepaid", detected |-> FALSE, reason |-> "No prepaid data" ]
    ELSE PrepaidFromSpine(RegimeSpine(SelectSeq(master_df, LAMBDA r : r.segment = "prepaid"),
                                     "high"))

\* _detect_postpaid_driver, from the two 8-week blocks on: their means, the
\* three gates, the result
ValueRegime(previous, recent, recent_corr) ==
    LET avg_adds_recent    == MeanAdds(recent)
        avg_adds_previous  == MeanAdds(previous)
        avg_value_recent   == Mean(Col(recent, "share_4w"))
        avg_value_previous == Mean(Col(previous, "share_4w"))
        adds_ratio  == AddsRatio(MeanAdds(recent), MeanAdds(previous))
        share_delta == FSub(Mean(Col(recent, "share_4w")), Mean(Col(previous, "share_4w")))
        detected == Detected(FSub(Mean(Col(recent, "share_4w")),
                                  Mean(Col(previous, "share_4w"))),
                             AddsRatio(MeanAdds(recent), MeanAdds(previous)), recent_corr,
                             POSTPAID_STRONG_SHARE_DELTA, POSTPAID_STRONG_ADDS_RATIO,
                             POSTPAID_STRONG_CORR)
    IN [ segment |-> "postpaid", driver |-> "value_mix_shift", detected |-> detected,
         confidence |-> RegimeConfidence(detected),
         metrics |-> [ adds_ratio |-> adds_ratio, share_delta |-> share_delta,
                       recent_correlation |-> recent_corr,
                       avg_adds_previous |-> avg_adds_previous,
                       avg_adds_recent |-> avg_adds_recent,
                       value_share_previous |-> avg_value_previous,
                       value_share_recent |-> avg_value_recent ] ]

\* faulty variant of the regime split: every week before the last 8 counts as
\* the previous regime (spine.iloc[:-8])
PostpaidFromSpine_AllEarlier(spine) ==
    IF Len(spine) < POSTPAID_MIN_ROWS
    THEN [ segment |-> "postpaid", detected |-> FALSE, reason |-> "Insufficient data" ]
    ELSE ValueRegime(SubSeq(spine, 1, Len(spine) - POSTPAID_REGIME_WEEKS),
                     TailN(spine, POSTPAID_REGIME_WEEKS), RecentCorr(spine))

\* faulty variant of the row floor: a spine of exactly 16 rows is turned away
PostpaidFromSpine_OffByOne(spine) ==
    IF Len(spine) <= POSTPAID_MIN_ROWS
    THEN [ segment |-> "postpaid", detected |-> FALSE, reason |-> "Insufficient data" ]
    ELSE ValueRegime(SubSeq(spine, Len(spine) - 2 * POSTPAID_REGIME_WEEKS + 1,
                                   Len(spine) - POSTPAID_REGIME_WEEKS),
                     TailN(spine, POSTPAID_REGIME_WEEKS), RecentCorr(spine))

\* _detect_postpaid_driver, from the weekly spine on
PostpaidFromSpine(spine) ==
    IF Len(spine) < POSTPAID_MIN_ROWS
    THEN [ segment |-> "postpaid", detected |-> FALSE, reason |-> "Insufficient data" ]
    ELSE ValueRegime(SubSeq(spine, Len(spine) - 2 * POSTPAID_REGIME_WEEKS + 1,
                                   Len(spine) - POSTPAID_REGIME_WEEKS),
                     TailN(spine, POSTPAID_REGIME_WEEKS), RecentCorr(spine))

\* _detect_postpaid_driver
DetectPostpaidDriver(master_df) ==
    IF SelectSeq(master_df, LAMBDA r : r.segment = "postpaid") = <<>>
    THEN [ segment |-> "postpaid", detected |-> FALSE, reason |-> "No postpaid data" ]
    ELSE PostpaidFromSpine(RegimeSpine(SelectSeq(master_df,
                                                 LAMBDA r : r.segment = "postpaid"),
                                       "value"))

\* faulty variant of the effect of a detector on the master table: the rows of
\* the other segments are dropped from the caller's table
MasterAfterDetector_InPlace(master_df, segment) ==
    SelectSeq(master_df, LAMBDA r : r.segment = segment)

\* the master table the caller holds once a regime-shift detector has run:
\* df = master_df[...].copy() is a new table and the flag column is added to it
MasterAfterDetector(master_df, segment) == master_df

\* faulty variant of the composite: a segment without records ends the whole
\* analysis, the other segment is not looked at
DetectSubscriptionDrivers_StopAtMissing(master_df) ==
    IF "reason" \in DOMAIN DetectPrepaidDriver(master_df)
          /\ DetectPrepaidDriver(master_df).reason = "No prepaid data"
    THEN [ subscription_driver_analysis |->
             [ prepaid |-> DetectPrepaidDriver(master_df),
               postpaid |-> [ segment |-> "postpaid", detected |-> FALSE,
                              reason |-> "No postpaid data" ] ] ]
    ELSE [ subscription_driver_analysis |->
             [ prepaid |-> DetectPrepaidDriver(master_df),
               postpaid |-> DetectPostpaidDriver(master_df) ] ]

\* detect_subscription_drivers
DetectSubscriptionDrivers(master_df) ==
    [ subscription_driver_analysis |->
        [ prepaid |-> DetectPrepaidDriver(master_df),
          postpaid |-> DetectPostpaidDriver(master_df) ] ]

(***************************************************************************)
(* Forecast runners (run_subscription_forecast.py, run_add_churn_forecast.py).  *)
(* A date is a day number.  The fitted models are collaborators loaded from *)
(* a file: forecast(steps) returns one value per day after the last         *)
(* training date.                                                           *)
(***************************************************************************)

\* the level around which a fitted model predicts
ModelLevel(model) ==
    CASE model = "prepaid_model" -> 100
      [] model = "postpaid_model" -> 200
      [] model = "prepaid_adds_model" -> 300
      [] model = "prepaid_churn_model" -> 400
      [] model = "postpaid_adds_model" -> 500
      [] model = "postpaid_churn_model" -> 600

\* model.forecast(steps=n): n values, the k-th for the k-th day after training
ModelForecast(model, steps) == [k \in 1..steps |-> ModelLevel(model) + k]

\* (today - last_train_date).days, floored at 0
GapDays(last_train_date, today) ==
    IF today - last_train_date < 0 THEN 0 ELSE today - last_train_date

\* pd.date_range(start=last_train_date + 1 day, periods=n, freq="D")
DateRange(start, periods) == [k \in 1..periods |-> start + k - 1]

\* DataFrame.head(n)
HeadN(s, n) == IF Len(s) <= n THEN s ELSE SubSeq(s, 1, n)

\* the table of run_subscription_forecast before the cut
SubscriptionForecastTable(steps_needed, last_train_date) ==
    LET forecast_index == DateRange(last_train_date + 1, steps_needed)
        prepaid_forecast_full  == ModelForecast("prepaid_model", steps_needed)
        postpaid_forecast_full == ModelForecast("postpaid_model", steps_needed)
    IN [k \in 1..steps_needed |->
          [ date |-> forecast_index[k],
            prepaid_forecast  |-> prepaid_forecast_full[k],
            postpaid_forecast |-> postpaid_forecast_full[k],
            total_forecast    |-> prepaid_forecast_full[k] + postpaid_forecast_full[k] ]]

\* faulty variant of run_subscription_forecast: head() instead of tail(), the first
\* rows of the table instead of the last
RunSubscriptionForecast_Head(horizon_days, last_train_date, today) ==
    [ requests |-> [ prepaid_model  |-> GapDays(last_train_date, today) + horizon_days,
                     postpaid_model |-> GapDays(last_train_date, today) + horizon_days ],
      output |-> HeadN(SubscriptionForecastTable(GapDays(last_train_date, today) + horizon_days,
                                                 last_train_date),
                       horizon_days) ]

\* run_subscription_forecast: the steps asked of each model and the table returned
RunSubscriptionForecast(horizon_days, last_train_date, today) ==
    [ requests |-> [ prepaid_model  |-> GapDays(last_train_date, today) + horizon_days,
                     postpaid_model |-> GapDays(last_train_date, today) + horizon_days ],
      output |-> TailN(SubscriptionForecastTable(GapDays(last_train_date, today) + horizon_days,
                                                 last_train_date),
                       horizon_days) ]

\* the table of run_add_churn_forecast before the cut
AddChurnForecastTable(steps_needed, last_train_date) ==
    LET forecast_index == DateRange(last_train_date + 1, steps_needed)
    IN [k \in 1..steps_needed |->
          [ date |-> forecast_index[k],
            prepaid_adds_forecast   |-> ModelForecast("prepaid_adds_model", steps_needed)[k],
            prepaid_churn_forecast  |-> ModelForecast("prepaid_churn_model", steps_needed)[k],
            postpaid_adds_forecast  |-> ModelForecast("postpaid_adds_model", steps_needed)[k],
            postpaid_churn_forecast |-> ModelForecast("postpaid_churn_model", steps_needed)[k] ]]

\* run_add_churn_forecast: the steps asked of each model and the table returned
RunAddChurnForecast(horizon_days, last_train_date, today) ==
    [ requests |-> [ prepaid_adds_model   |-> GapDays(last_train_date, today) + horizon_days,
                     prepaid_churn_model  |-> GapDays(last_train_date, today) + horizon_days,
                     postpaid_adds_model  |-> GapDays(last_train_date, today) + horizon_days,
                     postpaid_churn_model |-> GapDays(last_train_date, today) + horizon_days ],
      output |-> TailN(AddChurnForecastTable(GapDays(last_train_date, today) + horizon_days,
                                             last_train_date),
                       horizon_days) ]

(***************************************************************************)
(* Inputs of the alignment engine.  A weekly profile is a sequence of      *)
(* <<target count, driver count>> pairs, one per week; a frame is the      *)
(* table a check receives, with the column names that check expects.       *)
(***************************************************************************)

\* the longest weekly table the model feeds to an alignment check
MaxWeeks == 16

\* the longest spine the model hands to the alignment summary directly
MaxSpineRows == 12

\* n weeks of the same pair
RECURSIVE Repeat(_, _)
Repeat(x, n) == IF n <= 0 THEN <<>> ELSE <<x>> \o Repeat(x, n - 1)

\* weekly <<target, driver>> pairs the step profiles are made of
WeekPairs == { <<0, 0>>, <<5, 1>>, <<10, 2>>, <<10, 0>>, <<10, 10>>, <<20, 1>> }

\* table lengths: the empty table and the lengths around the 12-row floor
FrameLengths == {0} \cup ((MaxWeeks - 3)..MaxWeeks)

\* n1 weeks of pair a followed by weeks of pair b
StepProfiles ==
    { Repeat(a, n1) \o Repeat(b, n - n1) :
        <<a, b, n, n1>> \in { q \in WeekPairs \X WeekPairs \X FrameLengths \X (0..MaxWeeks) :
                               q[4] <= q[3] /\ (q[1] = q[2] => q[4] = 0) } }

\* the worked example: 12 weekly target counts and a driver of exactly 20%,
\* counted in fifths of a subscriber so that both columns are whole numbers
ExampleTargets == <<100, 105, 110, 108, 112, 115, 120, 118, 122, 125, 130, 128>>

ExampleProfile == [i \in 1..Len(ExampleTargets) |-> <<5 * ExampleTargets[i], ExampleTargets[i]>>]

\* a driver of exactly 20% of a target that keeps moving, over n weeks
MovingProfile(n) == [i \in 1..n |-> IF i % 3 = 0 THEN <<15, 3>> ELSE IF i % 3 = 1 THEN <<5, 1>> ELSE <<10, 2>>]

\* a profile with the count of week k missing
WithMissing(p, k) == [i \in 1..Len(p) |-> IF i = k THEN <<NaN, p[i][2]>> ELSE p[i]]

Profiles ==
    StepProfiles
    \cup { ExampleProfile }
    \cup { MovingProfile(n) : n \in {2, 3, 4} \cup ((MaxWeeks - 3)..MaxWeeks) }
    \cup { WithMissing(MovingProfile(MaxWeeks), k) : k \in {1, 4, MaxWeeks} }

\* the table of a profile under the column names of a check, in week order
Frame(p, target_col, driver_col) ==
    [i \in 1..Len(p) |->
        ("week_start" :> i) @@ (target_col :> p[i][1]) @@ (driver_col :> p[i][2])]

\* the same table with its rows in the opposite order
Reversed(df) == [i \in 1..Len(df) |-> df[Len(df) + 1 - i]]

\* the same table with its first k rows moved to the end
Rotated(df, k) == SubSeq(df, k + 1, Len(df)) \o SubSeq(df, 1, k)

Frames(target_col, driver_col) ==
    { Frame(p, target_col, driver_col) : p \in Profiles }
    \cup { Reversed(Frame(MovingProfile(n), target_col, driver_col)) : n \in {MaxWeeks - 1, MaxWeeks} }
    \cup { Rotated(Frame(MovingProfile(n), target_col, driver_col), 5) : n \in {MaxWeeks - 2, MaxWeeks} }

\* the tables handed to the composite: none, short, long and moving, long and flat,
\* long with a missing count
CompositeFrames(target_col, driver_col) ==
    { <<>>,
      Frame(ExampleProfile, target_col, driver_col),
      Frame(MovingProfile(MaxWeeks), target_col, driver_col),
      Frame(Repeat(<<10, 0>>, MaxWeeks), target_col, driver_col) }

\* the prepaid churn table: any of the above, or one with a missing count
PrepaidChurnFrames ==
    CompositeFrames("churn", "is_competitive")
    \cup { Frame(WithMissing(MovingProfile(MaxWeeks), MaxWeeks), "churn", "is_competitive") }

\* values of the rolling_corr and driver_share cells of a spine handed to the summary
CorrCells == { NaN, -1000, 0, 590, 600, 700, 1000 }

ShareCells == { NaN, 0, 99, 100, 320, 1000 }

\* a spine of n rows whose last k rows hold corr b / share d and whose other rows
\* hold corr a / share c; the rolling sums are the ones that give these shares
SpineOf(n, k, a, b, c, d) ==
    [i \in 1..n |->
        LET corr  == IF i > n - k THEN b ELSE a
            share == IF i > n - k THEN d ELSE c
        IN [ week_start |-> i,
             adds_rw |-> IF share = NaN THEN 0 ELSE Scale,
             is_retail_rw |-> IF share = NaN THEN 0 ELSE share,
             driver_share |-> share,
             rolling_corr |-> corr ] ]

Spines ==
    { SpineOf(n, k, q[1], q[2], q[3], q[4]) :
        <<n, k, q>> \in (MIN_POINTS..MaxSpineRows) \X {2, 8}
                        \X (CorrCells \X CorrCells \X ShareCells \X ShareCells) }

\* arguments of _alignment_score: a correlation in [-1, 1] and any finite share, or null
ScoreCorrs == { NoneVal, NaN, -1000, -1, 0, 600, 1000 }

ScoreShares == { NoneVal, NaN, -500, 0, 99, 100, 1000, 1001, 2500 }

(***************************************************************************)
(* Inputs of the regime-shift engine.  The master table holds one row per  *)
(* subscription event.  A weekly profile is a sequence of                  *)
(* <<records in the week, records of the driver tier among them>>.         *)
(***************************************************************************)

\* the longest series of weeks of one segment in a master table
MaxRegimeWeeks == 20

\* the most weeks after the step in the premium-shift series
MaxPostWeeks == 10

NameUnlimited == <<"U", "n", "l", "i", "m", "i", "t", "e", "d", " ", "D", "a", "t", "a", " ", "P", "l", "a", "n">>

Name60GB == <<"6", "0", "G", "B", " ", "P", "l", "a", "n">>

Name40GB == <<"4", "0", "G", "B", " ", "P", "l", "a", "n">>

NameEmpty == <<>>

NameBasic == <<"B", "a", "s", "i", "c", " ", "5", "G">>

Name4All == <<"T", "a", "l", "k", "4", "A", "L", "L">>

NamePlus == <<"P", "l", "u", "s">>

Name50GB == <<"5", "0", "G", "B", " ", "P", "l", "a", "n">>

Name51gb == <<"5", "1", "g", "b">>

Name120GB == <<"M", "a", "x", " ", "1", "2", "0", "G", "b">>

NameUnlimited10GB == <<"U", "N", "L", "I", "M", "I", "T", "E", "D", " ", "1", "0", "G", "B">>

Name10GBUnlimited == <<"1", "0", "G", "B", " ", "u", "n", "L", "i", "m", "i", "t", "e", "d">>

\* the number and the unit are apart: no match
Name100SpaceGB == <<"1", "0", "0", " ", "G", "B">>

\* two sizes in one name: the search stops at the first
Name9gb70gb == <<"9", "g", "b", " ", "+", " ", "7", "0", "g", "b">>

Name60G == <<"6", "0", "G">>

\* a number that is not a size before the size
Name5G60GB == <<"5", "G", " ", "6", "0", "G", "B">>

\* product names handed to the tier classifier
ProductNames ==
    { NoName, NameEmpty, NameUnlimited, Name60GB, Name40GB, Name50GB, Name51gb, Name120GB,
      NameUnlimited10GB, Name10GBUnlimited, Name100SpaceGB, Name9gb70gb, Name60G,
      Name5G60GB, NameBasic, Name4All, NamePlus }

\* names of the driver tier and of the other tier, by segment
DriverName(segment, k) ==
    IF segment = "prepaid" THEN (IF k % 2 = 1 THEN NameUnlimited ELSE Name60GB)
    ELSE (IF k % 2 = 1 THEN NameBasic ELSE Name4All)

OtherName(segment, k) ==
    IF segment = "prepaid" THEN (IF k % 3 = 0 THEN NameEmpty ELSE IF k % 3 = 1 THEN Name40GB ELSE NoName)
    ELSE (IF k % 2 = 1 THEN NamePlus ELSE NoName)

\* the event rows of week w: n subscriptions, the first h of them of the driver tier
WeekRows(segment, w, n, h) ==
    [k \in 1..n |->
        [ week_start |-> w, unique_subscription_id |-> 100 * w + k,
          product_name |-> IF k <= h THEN DriverName(segment, k) ELSE OtherName(segment, k),
          segment |-> segment ]]

\* the event rows of a weekly profile, week after week
RECURSIVE SegmentRows(_, _)
SegmentRows(segment, p) ==
    IF p = <<>> THEN <<>>
    ELSE SegmentRows(segment, SubSeq(p, 1, Len(p) - 1))
         \o WeekRows(segment, Len(p), p[Len(p)][1], p[Len(p)][2])

\* the synthetic premium series: 5% premium share on 40 weekly adds, then 25% on 60
PremiumStepProfiles ==
    { Repeat(<<40, 2>>, n1) \o Repeat(<<60, 15>>, n2) :
        <<n1, n2>> \in {5, 8} \X (1..MaxPostWeeks) }

\* small weekly <<records, driver-tier records>> pairs
SmallWeeks == { <<4, 0>>, <<4, 1>>, <<5, 1>>, <<6, 2>>, <<6, 0>> }

\* lengths around the floors of the two detectors (8 and 16 smoothed weeks)
RegimeLengths == {10, 11} \cup ((MaxRegimeWeeks - 2)..MaxRegimeWeeks)

SmallStepProfiles ==
    { Repeat(a, n - n2) \o Repeat(b, n2) :
        <<a, b, n, n2>> \in { q \in SmallWeeks \X SmallWeeks \X RegimeLengths \X (0..MaxPostWeeks) :
                               q[1] = q[2] => q[4] = 0 } }

\* series with two changes: the recent weeks can move against the earlier shift
ThreeStepProfiles ==
    { Repeat(q[1], n - n2 - n3) \o Repeat(q[2], n2) \o Repeat(q[3], n3) :
        <<q, n, n2, n3>> \in { << <<4, 0>>, <<6, 2>>, <<5, 2>> >>,
                               << <<4, 0>>, <<4, 1>>, <<6, 2>> >>,
                               << <<4, 1>>, <<6, 2>>, <<6, 0>> >> }
                             \X RegimeLengths \X {2, 6} \X (1..4) }

\* a few rows of another segment and of neither segment
OtherRows(segment) ==
    WeekRows(segment, 1, 2, 1)
    \o << [ week_start |-> 1, unique_subscription_id |-> 1, product_name |-> NameUnlimited,
            segment |-> "nan" ] >>

\* the table with every record entered a second time, every other time under a
\* product name of the driver tier: the same identifiers, more records
WithRepeats(df) ==
    df \o [i \in 1..Len(df) |->
             [df[i] EXCEPT !.product_name =
                 IF i % 2 = 0 THEN DriverName(df[i].segment, i) ELSE OtherName(df[i].segment, i)]]

\* series whose records are entered twice
RepeatProfiles ==
    { Repeat(<<4, 0>>, 6) \o Repeat(<<6, 2>>, 5),
      Repeat(<<4, 0>>, MaxRegimeWeeks - 6) \o Repeat(<<6, 2>>, 6) }

Masters ==
    { <<>> }
    \cup { WithRepeats(SegmentRows(s, p)) : <<s, p>> \in {"prepaid", "postpaid"} \X RepeatProfiles }
    \cup { SegmentRows("prepaid", p) : p \in PremiumStepProfiles }
    \cup { SegmentRows("prepaid", p) \o OtherRows("postpaid") : p \in SmallStepProfiles }
    \cup { OtherRows("prepaid") \o SegmentRows("postpaid", p) : p \in SmallStepProfiles }
    \cup { SegmentRows("prepaid", p) : p \in ThreeStepProfiles }
    \cup { SegmentRows("postpaid", p) : p \in ThreeStepProfiles }

\* a postpaid series of n weeks whose value share and volume rise over the last weeks
ValueStepProfile(n) == Repeat(<<4, 0>>, n - 6) \o Repeat(<<6, 2>>, 6)

\* the master tables handed to the composite: no, one or both segments present,
\* each short or long
CompositeMasters ==
    { SegmentRows("prepaid", a) \o SegmentRows("postpaid", b) :
        <<a, b>> \in ({ <<>>, Repeat(<<4, 1>>, 5) } \cup PremiumStepProfiles)
                     \X { <<>>, Repeat(<<4, 1>>, 5),
                          ValueStepProfile(MaxRegimeWeeks - 2), ValueStepProfile(MaxRegimeWeeks) } }

(***************************************************************************)
(* Inputs of the forecast runners                                          *)
(***************************************************************************)

\* the longest horizon asked of a forecast runner, in days
MaxHorizon == 3

\* the last day number: the last training date and today lie in 0..MaxDay
MaxDay == 5

Horizons == 1..MaxHorizon

Days == 0..MaxDay

(***************************************************************************)
(* The state machine: one action per function of the engines.  `call' is   *)
(* the function last called, `arg' what it was given, `ret' what it        *)
(* returned.  The engines keep no state of their own between calls: a call *)
(* starts from the idle state and Return leads back to it.                 *)
(***************************************************************************)

\* no agent has been constructed: the functions of the engines are called directly
NoAgent == <<>>

Init ==
    /\ call = "none"
    /\ arg = <<>>
    /\ ret = <<>>
    /\ tables = NoAgent
    /\ loaded = NoAgent
    /\ pc = "idle"
    /\ locals = <<>>
    /\ trace = <<>>
    /\ seen = <<>>

CallAlignmentScore ==
    \E corr \in ScoreCorrs, share \in ScoreShares :
        /\ call = "none"
        /\ UNCHANGED agentVars
        /\ call' = "_alignment_score"
        /\ arg' = <<corr, share>>
        /\ ret' = AlignmentScore(corr, share)

CallSummarizeAlignment ==
    \E spine \in Spines :
        /\ call = "none"
        /\ UNCHANGED agentVars
        /\ call' = "_summarize_alignment"
        /\ arg' = spine
        /\ ret' = SummarizeAlignment(spine, "adds_rw", "is_retail_rw")

CallBuildSpine ==
    \E df \in Frames("adds", "is_retail") :
        /\ call = "none"
        /\ UNCHANGED agentVars
        /\ call' = "_build_spine"
        /\ arg' = <<df, "week_start", "adds", "is_retail">>
        /\ ret' = BuildSpine(df, "week_start", "adds", "is_retail")

CallDetectPostpaidAddDriver ==
    \E df \in Frames("adds", "is_retail") :
        /\ call = "none"
        /\ UNCHANGED agentVars
        /\ call' = "_detect_postpaid_add_driver"
        /\ arg' = df
        /\ ret' = DetectPostpaidAddDriver(df)

CallDetectPostpaidChurnDriver ==
    \E df \in Frames("churn", "is_competitive") :
        /\ call = "none"
        /\ UNCHANGED agentVars
        /\ call' = "_detect_postpaid_churn_driver"
        /\ arg' = df
        /\ ret' = DetectPostpaidChurnDriver(df)

CallDetectPrepaidAddDriver ==
    \E df \in Frames("adds", "is_portin") :
        /\ call = "none"
        /\ UNCHANGED agentVars
        /\ call' = "_detect_prepaid_add_driver"
        /\ arg' = df
        /\ ret' = DetectPrepaidAddDriver(df)

CallDetectPrepaidChurnDriver ==
    \E df \in Frames("churn", "is_competitive") :
        /\ call = "none"
        /\ UNCHANGED agentVars
        /\ call' = "_detect_prepaid_churn_driver"
        /\ arg' = df
        /\ ret' = DetectPrepaidChurnDriver(df)

CallDetectSubscriptionDrivers ==
    \E master_df \in CompositeMasters :
        /\ call = "none"
        /\ UNCHANGED agentVars
        /\ call' = "detect_subscription_drivers"
        /\ arg' = master_df
        /\ ret' = DetectSubscriptionDrivers(master_df)

CallDetectAddChurnDrivers ==
    \E postpaid_add_df \in CompositeFrames("adds", "is_retail"),
       postpaid_churn_df \in CompositeFrames("churn", "is_competitive"),
       prepaid_add_df \in CompositeFrames("adds", "is_portin"),
       prepaid_churn_df \in PrepaidChurnFrames :
        /\ call = "none"
        /\ UNCHANGED agentVars
        /\ call' = "detect_add_churn_drivers"
        /\ arg' = <<postpaid_add_df, postpaid_churn_df, prepaid_add_df, prepaid_churn_df>>
        /\ ret' = DetectAddChurnDrivers(postpaid_add_df, postpaid_churn_df,
                                        prepaid_add_df, prepaid_churn_df)

CallRunSubscriptionForecast ==
    \E horizon_days \in Horizons, last_train_date \in Days, today \in Days :
        /\ call = "none"
        /\ UNCHANGED agentVars
        /\ call' = "run_subscription_forecast"
        /\ arg' = [ horizon_days |-> horizon_days, last_train_date |-> last_train_date,
                    today |-> today ]
        /\ ret' = RunSubscriptionForecast(horizon_days, last_train_date, today)

CallRunAddChurnForecast ==
    \E horizon_days \in Horizons, last_train_date \in Days, today \in Days :
        /\ call = "none"
        /\ UNCHANGED agentVars
        /\ call' = "run_add_churn_forecast"
        /\ arg' = [ horizon_days |-> horizon_days, last_train_date |-> last_train_date,
                    today |-> today ]
        /\ ret' = RunAddChurnForecast(horizon_days, last_train_date, today)

CallIsHighTier ==
    \E product_name \in ProductNames :
        /\ call = "none"
        /\ UNCHANGED agentVars
        /\ call' = "_is_high_tier"
        /\ arg' = product_name
        /\ ret' = IsHighTier(product_name)

CallDetectPrepaidDriver ==
    \E master_df \in Masters :
        /\ call = "none"
        /\ UNCHANGED agentVars
        /\ call' = "_detect_prepaid_driver"
        /\ arg' = master_df
        /\ ret' = DetectPrepaidDriver(master_df)

CallDetectPostpaidDriver ==
    \E master_df \in Masters :
        /\ call = "none"
        /\ UNCHANGED agentVars
        /\ call' = "_detect_postpaid_driver"
        /\ arg' = master_df
        /\ ret' = DetectPostpaidDriver(master_df)

\* the caller is done with the result; the engines hold nothing of the call
Return ==
    /\ call # "none"
    /\ UNCHANGED agentVars
    /\ call' = "none"
    /\ arg' = <<>>
    /\ ret' = <<>>

Next ==
    \/ Return
    \/ CallAlignmentScore
    \/ CallSummarizeAlignment
    \/ CallBuildSpine
    \/ CallDetectPostpaidAddDriver
    \/ CallDetectPostpaidChurnDriver
    \/ CallDetectPrepaidAddDriver
    \/ CallDetectPrepaidChurnDriver
    \/ CallDetectAddChurnDrivers
    \/ CallIsHighTier
    \/ CallDetectPrepaidDriver
    \/ CallDetectPostpaidDriver
    \/ CallDetectSubscriptionDrivers
    \/ CallRunSubscriptionForecast
    \/ CallRunAddChurnForecast

Spec == Init /\ [][Next]_vars

(***************************************************************************)
(* The agent (agent/telecom_agent.py).  A TelecomAgent loads its tables    *)
(* once, at construction; each of its three methods calls the forecast     *)
(* runners, the detection engines and the narration collaborators one      *)
(* after the other.  Each call is one step.                                *)
(***************************************************************************)

\* the most methods run on one agent
MaxCalls == 3

\* forecast_days passed to a method
AgentHorizons == { 1, 2 }

\* <<last training date, today>> at the time of a forecast
AgentClocks == { <<0, 2>>, <<3, 1>> }

\* the text a narration collaborator answers with: the language model's choice
Narrations == { "narration_a", "narration_b" }

AgentMasters ==
    { <<>>,
      SegmentRows("postpaid", ValueStepProfile(MaxRegimeWeeks - 2)),
      SegmentRows("prepaid", Repeat(<<40, 2>>, 5) \o Repeat(<<60, 15>>, 6))
          \o SegmentRows("postpaid", ValueStepProfile(MaxRegimeWeeks)) }

\* the four weekly frames prepare_add_churn_driver_frames hands over
AgentFrames ==
    { [ postpaid_add_df   |-> Frame(MovingProfile(MaxWeeks), "adds", "is_retail"),
        postpaid_churn_df |-> Frame(Repeat(<<10, 0>>, MaxWeeks), "churn", "is_competitive"),
        prepaid_add_df    |-> Reversed(Frame(MovingProfile(MaxWeeks - 1), "adds", "is_portin")),
        prepaid_churn_df  |-> Frame(MovingProfile(MaxWeeks), "churn", "is_competitive") ],
      [ postpaid_add_df   |-> Frame(ExampleProfile, "adds", "is_retail"),
        postpaid_churn_df |-> Frame(MovingProfile(MaxWeeks), "churn", "is_competitive"),
        prepaid_add_df    |-> <<>>,
        prepaid_churn_df  |-> <<>> ] }

\* TelecomAgent.__init__: the tables of a freshly constructed agent
AgentTables ==
    { [ master_df |-> m,
        postpaid_add_df |-> f.postpaid_add_df, postpaid_churn_df |-> f.postpaid_churn_df,
        prepaid_add_df |-> f.prepaid_add_df, prepaid_churn_df |-> f.prepaid_churn_df ] :
        <<m, f>> \in AgentMasters \X AgentFrames }

\* the tables of the agent once detect_subscription_drivers has run on self.master_df
TablesAfterSubscriptionDetection(t) ==
    [ t EXCEPT !.master_df =
        MasterAfterDetector(MasterAfterDetector(@, "prepaid"), "postpaid") ]

\* the tables of the agent once detect_add_churn_drivers has run on the four frames;
\* the stub does not look at its table
TablesAfterAddChurnDetection(t) ==
    [ t EXCEPT !.postpaid_add_df   = TableAfterBuildSpine(@, "week_start", "adds", "is_retail"),
               !.postpaid_churn_df = TableAfterBuildSpine(@, "week_start", "churn", "is_competitive"),
               !.prepaid_add_df    = TableAfterBuildSpine(@, "week_start", "adds", "is_portin") ]

\* detect_subscription_drivers(self.master_df)
AgentSubscriptionDrivers(t) == DetectSubscriptionDrivers(t.master_df)

\* detect_add_churn_drivers(self.postpaid_add_df, ..., self.prepaid_churn_df)
AgentAddChurnDrivers(t) ==
    DetectAddChurnDrivers(t.postpaid_add_df, t.postpaid_churn_df,
                          t.prepaid_add_df, t.prepaid_churn_df)

\* the first result of an analysis is kept for comparison with the later ones
FirstOf(first, result) == IF first = <<>> THEN <<result>> ELSE first

AgentInit ==
    /\ tables \in AgentTables
    /\ loaded = tables
    /\ call = "none"
    /\ arg = <<>>
    /\ ret = <<>>
    /\ pc = "idle"
    /\ locals = <<>>
    /\ trace = <<>>
    /\ seen = [ subscription |-> <<>>, add_churn |-> <<>>, calls |-> 0,
                subscription_runs |-> 0, add_churn_runs |-> 0 ]

\* a step that calls a forecast runner: the first step of each method, and the
\* second of debug_outputs
ForecastStep(from, to, runner, local) ==
    \E forecast_days \in AgentHorizons, clock \in AgentClocks :
        /\ pc = from
        /\ from = "idle" => seen.calls < MaxCalls
        /\ pc' = to
        /\ call' = runner
        /\ arg' = [ horizon_days |-> forecast_days, last_train_date |-> clock[1],
                    today |-> clock[2] ]
        /\ ret' = IF runner = "run_subscription_forecast"
                  THEN RunSubscriptionForecast(forecast_days, clock[1], clock[2])
                  ELSE RunAddChurnForecast(forecast_days, clock[1], clock[2])
        /\ locals' = IF from = "idle" THEN (local :> ret'.output)
                     ELSE (local :> ret'.output) @@ locals
        /\ trace' = IF from = "idle" THEN <<runner>> ELSE Append(trace, runner)
        /\ seen' = IF from = "idle" THEN [seen EXCEPT !.calls = @ + 1] ELSE seen
        /\ UNCHANGED <<tables, loaded>>

\* a step that calls detect_subscription_drivers(self.master_df)
SubscriptionDetectionStep(from, to, local) ==
    /\ pc = from
    /\ pc' = to
    /\ call' = "detect_subscription_drivers"
    /\ arg' = tables.master_df
    /\ ret' = AgentSubscriptionDrivers(tables)
    /\ tables' = TablesAfterSubscriptionDetection(tables)
    /\ locals' = (local :> ret') @@ locals
    /\ trace' = Append(trace, "detect_subscription_drivers")
    /\ seen' = [seen EXCEPT !.subscription = FirstOf(@, ret'), !.subscription_runs = @ + 1]
    /\ UNCHANGED loaded

\* a step that calls detect_add_churn_drivers on the four frames of the agent
AddChurnDetectionStep(from, to, local) ==
    /\ pc = from
    /\ pc' = to
    /\ call' = "detect_add_churn_drivers"
    /\ arg' = << tables.postpaid_add_df, tables.postpaid_churn_df,
                 tables.prepaid_add_df, tables.prepaid_churn_df >>
    /\ ret' = AgentAddChurnDrivers(tables)
    /\ tables' = TablesAfterAddChurnDetection(tables)
    /\ locals' = (local :> ret') @@ locals
    /\ trace' = Append(trace, "detect_add_churn_drivers")
    /\ seen' = [seen EXCEPT !.add_churn = FirstOf(@, ret'), !.add_churn_runs = @ + 1]
    /\ UNCHANGED loaded

\* a step that calls a narration collaborator with driver_context
NarrationStep(from, to, narrator, driver_context) ==
    \E text \in Narrations :
        /\ pc = from
        /\ pc' = to
        /\ call' = narrator
        /\ arg' = driver_context
        /\ ret' = text
        /\ locals' = ("narration" :> text) @@ ("driver_context" :> driver_context) @@ locals
        /\ trace' = Append(trace, narrator)
        /\ UNCHANGED <<tables, loaded, seen>>

\* the return of a method: the dictionary it builds from its locals
ReturnStep(from, method, result) ==
    /\ pc = from
    /\ pc' = "idle"
    /\ call' = method
    /\ arg' = <<>>
    /\ ret' = result
    /\ UNCHANGED <<tables, loaded, locals, trace, seen>>

\* debug_outputs
DebugSubscriptionForecast ==
    ForecastStep("idle", "debug:sub_forecast", "run_subscription_forecast", "sub_forecast")

DebugAddChurnForecast ==
    ForecastStep("debug:sub_forecast", "debug:add_churn_forecast",
                 "run_add_churn_forecast", "add_churn_forecast")

DebugSubscriptionDrivers ==
    SubscriptionDetectionStep("debug:add_churn_forecast", "debug:sub_drivers", "sub_drivers")

DebugAddChurnDrivers ==
    AddChurnDetectionStep("debug:sub_drivers", "debug:add_churn_drivers", "add_churn_drivers")

DebugReturn ==
    ReturnStep("debug:add_churn_drivers", "debug_outputs",
               [ subscription_forecast |-> locals.sub_forecast,
                 add_churn_forecast |-> locals.add_churn_forecast,
                 subscription_drivers |-> locals.sub_drivers,
                 add_churn_drivers |-> locals.add_churn_drivers ])

\* run_subscription_analysis
SubscriptionForecast ==
    ForecastStep("idle", "subscription:forecast", "run_subscription_forecast", "forecast")

SubscriptionDrivers ==
    SubscriptionDetectionStep("subscription:forecast", "subscription:drivers", "drivers")

\* faulty variant of the narration step: the narrator is handed the forecast next
\* to the drivers
SubscriptionNarration_WithForecast ==
    NarrationStep("subscription:drivers", "subscription:narration",
                  "generate_subscription_driver_narrative",
                  [ forecast |-> locals.forecast, drivers |-> locals.drivers ])

SubscriptionNarration ==
    NarrationStep("subscription:drivers", "subscription:narration",
                  "generate_subscription_driver_narrative", locals.drivers)

SubscriptionReturn ==
    ReturnStep("subscription:narration", "run_subscription_analysis",
               [ forecast |-> locals.forecast, drivers |-> locals.drivers,
                 narration |-> locals.narration ])

\* run_add_churn_analysis
AddChurnForecast ==
    ForecastStep("idle", "add_churn:forecast", "run_add_churn_forecast", "forecast")

AddChurnDrivers ==
    AddChurnDetectionStep("add_churn:forecast", "add_churn:drivers", "drivers")

AddChurnNarration ==
    NarrationStep("add_churn:drivers", "add_churn:narration",
                  "generate_add_churn_driver_narrative", locals.drivers)

AddChurnReturn ==
    ReturnStep("add_churn:narration", "run_add_churn_analysis",
               [ forecast |-> locals.forecast, drivers |-> locals.drivers,
                 narration |-> locals.narration ])

AgentNext ==
    \/ DebugSubscriptionForecast
    \/ DebugAddChurnForecast
    \/ DebugSubscriptionDrivers
    \/ DebugAddChurnDrivers
    \/ DebugReturn
    \/ SubscriptionForecast
    \/ SubscriptionDrivers
    \/ SubscriptionNarration
    \/ SubscriptionReturn
    \/ AddChurnForecast
    \/ AddChurnDrivers
    \/ AddChurnNarration
    \/ AddChurnReturn

AgentSpec == AgentInit /\ [][AgentNext]_vars

(***************************************************************************)
(* Vocabulary of the properties                                            *)
(***************************************************************************)

AlignmentCalls ==
    { "_detect_postpaid_add_driver", "_detect_postpaid_churn_driver", "_detect_prepaid_add_driver" }

RegimeCalls == { "_detect_prepaid_driver", "_detect_postpaid_driver" }

CheckCalls == AlignmentCalls \cup RegimeCalls \cup { "_detect_prepaid_churn_driver" }

TargetColOf(c) == IF c = "_detect_postpaid_churn_driver" THEN "churn" ELSE "adds"

DriverColOf(c) ==
    IF c = "_detect_postpaid_add_driver" THEN "is_retail"
    ELSE IF c = "_detect_postpaid_churn_driver" THEN "is_competitive"
    ELSE "is_portin"

\* the aligned / detected flag of a result
FlagOf(r) == IF "aligned" \in DOMAIN r THEN r.aligned ELSE r.detected

\* a reported metric (None when undefined) reaches a threshold
MetricGeq(m, threshold) == m # NoneVal /\ m # NaN /\ m >= threshold

\* the weeks of a table (one row per week, weeks numbered consecutively) whose
\* 4-week window is complete: the week and its 3 predecessors all carry both counts
FullWindowWeeks(df, target_col, driver_col) ==
    { w \in {df[i].week_start : i \in 1..Len(df)} :
        \A v \in (w - 3)..w :
            \E i \in 1..Len(df) :
                df[i].week_start = v /\ df[i][target_col] # NaN /\ df[i][driver_col] # NaN }

RowsAfterSmoothing == Cardinality(FullWindowWeeks(arg, TargetColOf(call), DriverColOf(call)))

InsufficientResult(r) ==
    /\ r.aligned = FALSE
    /\ r.confidence = "low"
    /\ "reason" \in DOMAIN r
    /\ r.reason = "Insufficient data"
    /\ "metrics" \notin DOMAIN r

(***************************************************************************)
(* C1                                                                      *)
(***************************************************************************)

ThreeGates(m) ==
    /\ MetricGeq(m.corr_recent_avg, 600)
    /\ MetricGeq(m.share_recent_avg, 100)
    /\ MetricGeq(m.alignment_score, 650)

\* C1: whatever spine the alignment summary is handed, aligned is true exactly when
\* corr_recent_avg >= 0.60 and share_recent_avg >= 0.10 and alignment_score >= 0.65;
\* a score of 0.65 or more does not make up for a share under 0.10 or a
\* correlation under 0.60.
C1_AlignedIffThreeGates ==
    /\ call = "_summarize_alignment" => (ret[1] <=> ThreeGates(ret[3]))
    /\ call \in AlignmentCalls /\ "metrics" \in DOMAIN ret => (ret.aligned <=> ThreeGates(ret.metrics))

\* a spine with a score of at least 0.65 and a share just under 0.10: not aligned
C1_Witness ==
    /\ call = "_summarize_alignment"
    /\ ret[3].alignment_score >= 650
    /\ ret[3].share_recent_avg = 99
    /\ ret[3].corr_recent_avg >= 600
    /\ ret[1] = FALSE

(***************************************************************************)
(* C2                                                                      *)
(***************************************************************************)

\* C2: a table that leaves fewer than 12 rows after the 4-week smoothing (the
\* empty table too) makes each of the three alignment checks return aligned=false,
\* confidence "low", reason "Insufficient data" and no metrics; with exactly 12
\* rows left the check computes metrics.
C2_InsufficientBelowTwelveRows ==
    call \in AlignmentCalls =>
        /\ RowsAfterSmoothing < 12 => InsufficientResult(ret)
        /\ RowsAfterSmoothing = 12 => "metrics" \in DOMAIN ret /\ "reason" \notin DOMAIN ret

\* a table of 14 weeks: 11 rows after smoothing, one short of the floor
C2_Witness ==
    /\ call \in AlignmentCalls
    /\ Len(arg) = 14
    /\ RowsAfterSmoothing = 11
    /\ InsufficientResult(ret)

(***************************************************************************)
(* C3                                                                      *)
(***************************************************************************)

\* C3: the alignment score lies in [0, 1] for every correlation in [-1, 1] and
\* every finite share (negative, or greater than 1), and is exactly 0 when the
\* correlation and the share are both null.
C3_ScoreInUnitInterval ==
    /\ call = "_alignment_score" =>
          /\ 0 <= ret /\ ret <= 1000
          /\ (arg[1] \in {NaN, NoneVal} /\ arg[2] \in {NaN, NoneVal} => ret = 0)
    /\ call = "_summarize_alignment" =>
          /\ 0 <= ret[3].alignment_score /\ ret[3].alignment_score <= 1000
          /\ (ret[3].corr_recent_avg = NoneVal /\ ret[3].share_recent_avg = NoneVal
                => ret[3].alignment_score = 0)

\* a perfect correlation with a share of 2.5: the share is clamped and the score is 1
C3_Witness ==
    /\ call = "_alignment_score"
    /\ arg = <<1000, 2500>>
    /\ ret = 1000

(***************************************************************************)
(* C4                                                                      *)
(***************************************************************************)

GradeMatches(aligned, confidence, score) ==
    /\ confidence = "high" <=> (aligned /\ score >= 800)
    /\ confidence = "medium" <=> (aligned /\ score < 800)
    /\ confidence = "low" <=> ~aligned
    /\ (confidence = "medium" => score >= 650)

\* C4: in the alignment engine the confidence is "high" exactly when aligned and
\* score >= 0.80, "medium" exactly when aligned and score < 0.80 (so the score is
\* in [0.65, 0.80)), "low" exactly when not aligned, whatever the score.
C4_ConfidenceFromAlignedAndScore ==
    /\ call = "_summarize_alignment" => GradeMatches(ret[1], ret[2], ret[3].alignment_score)
    /\ call \in AlignmentCalls /\ "metrics" \in DOMAIN ret =>
          GradeMatches(ret.aligned, ret.confidence, ret.metrics.alignment_score)
    /\ call \in AlignmentCalls /\ "metrics" \notin DOMAIN ret =>
          ret.confidence = "low" /\ ~ret.aligned

\* a result that is not aligned although its score is 0.80 or more: graded "low"
C4_Witness ==
    /\ call = "_summarize_alignment"
    /\ ret[1] = FALSE
    /\ ret[3].alignment_score >= 800
    /\ ret[2] = "low"

(***************************************************************************)
(* C5                                                                      *)
(***************************************************************************)

RegimeGates(m, min_delta, min_ratio, min_corr) ==
    /\ MetricGeq(m.share_delta, min_delta)
    /\ MetricGeq(m.adds_ratio, min_ratio)
    /\ MetricGeq(m.recent_correlation, min_corr)

\* C5: whenever a regime-shift detector computes metrics, detected is true exactly
\* when share_delta, adds_ratio and recent_correlation all reach their thresholds:
\* 0.10 / 1.2 / 0.6 for the premium shift, 0.05 / 1.2 / 0.5 for the value mix.
C5_DetectedIffThreeGates ==
    /\ call = "_detect_prepaid_driver" /\ "metrics" \in DOMAIN ret =>
          (ret.detected <=> RegimeGates(ret.metrics, 100, 1200, 600))
    /\ call = "_detect_postpaid_driver" /\ "metrics" \in DOMAIN ret =>
          (ret.detected <=> RegimeGates(ret.metrics, 50, 1200, 500))

\* the share and the correlation pass and the volume ratio alone fails: not detected
C5_Witness ==
    /\ call = "_detect_postpaid_driver"
    /\ "metrics" \in DOMAIN ret
    /\ MetricGeq(ret.metrics.share_delta, 50)
    /\ MetricGeq(ret.metrics.recent_correlation, 500)
    /\ ~MetricGeq(ret.metrics.adds_ratio, 1200)
    /\ ret.detected = FALSE

(***************************************************************************)
(* C6                                                                      *)
(***************************************************************************)

\* C6: in the regime-shift engine every result that carries a confidence has
\* "high" exactly when detected and "low" exactly when not detected; "medium" is
\* never produced.
C6_RegimeConfidenceBinary ==
    call \in RegimeCalls /\ "confidence" \in DOMAIN ret =>
        /\ ret.confidence = "high" <=> ret.detected
        /\ ret.confidence = "low" <=> ~ret.detected
        /\ ret.confidence # "medium"

\* a negative classification with computed metrics, graded "low"
C6_Witness ==
    /\ call \in RegimeCalls
    /\ "confidence" \in DOMAIN ret
    /\ "metrics" \in DOMAIN ret
    /\ ret.detected = FALSE
    /\ ret.confidence = "low"

(***************************************************************************)
(* C7                                                                      *)
(***************************************************************************)

\* C7: every result of every detection check, the not-detected-with-reason
\* results included, carries a driver name, a boolean aligned/detected flag and a
\* confidence that is one of high, medium, low.
C7_EveryResultHasDriverFlagConfidence ==
    call \in CheckCalls =>
        /\ "driver" \in DOMAIN ret
        /\ ("aligned" \in DOMAIN ret \/ "detected" \in DOMAIN ret)
        /\ FlagOf(ret) \in BOOLEAN
        /\ "confidence" \in DOMAIN ret
        /\ ret.confidence \in {"high", "medium", "low"}

(***************************************************************************)
(* C8                                                                      *)
(***************************************************************************)

\* C8: in every result of every check a reason comes with a false flag and no
\* metrics, and a result without a reason carries metrics: never both a reason
\* and metrics, never neither.
C8_ReasonXorMetrics ==
    call \in CheckCalls =>
        /\ "reason" \in DOMAIN ret => FlagOf(ret) = FALSE /\ "metrics" \notin DOMAIN ret
        /\ "reason" \notin DOMAIN ret => "metrics" \in DOMAIN ret

\* the premium shift finds no premium regime: a reason, no metrics, not detected
C8_Witness ==
    /\ call = "_detect_prepaid_driver"
    /\ "reason" \in DOMAIN ret
    /\ ret.reason = "No premium regime"
    /\ "metrics" \notin DOMAIN ret
    /\ ret.detected = FALSE

(***************************************************************************)
(* C9                                                                      *)
(***************************************************************************)

IsExampleFrame == arg = Frame(ExampleProfile, TargetColOf(call), DriverColOf(call))

\* every week carries a positive target and a driver of exactly 20% of it
TwentyPercentFrame ==
    /\ Len(arg) > 0
    /\ \A i \in 1..Len(arg) :
          arg[i][TargetColOf(call)] > 0 /\ 5 * arg[i][DriverColOf(call)] = arg[i][TargetColOf(call)]

\* C9 as stated: the 12-week example with a driver of exactly 20% returns
\* aligned=true with share_recent_avg about 0.20, correlation about 1.0 and
\* alignment_score >= 0.65.
C9_ExampleAligned_AsStated ==
    call \in AlignmentCalls /\ IsExampleFrame =>
        /\ ret.aligned = TRUE
        /\ "metrics" \in DOMAIN ret
        /\ ret.metrics.share_recent_avg \in 195..205
        /\ ret.metrics.corr_recent_avg >= 990
        /\ ret.metrics.alignment_score >= 650

\* C9 amended: the 12-week example leaves 9 rows after smoothing, under the floor
\* of 12, and returns aligned=false, confidence "low", reason "Insufficient data";
\* a series of 15 weeks or more with a driver of exactly 20% of a positive target
\* computes metrics and, when a recent correlation is defined, returns
\* aligned=true with share_recent_avg 0.20, correlation 1.0 and score 0.76.
C9_ExampleInsufficient ==
    call \in AlignmentCalls =>
        /\ IsExampleFrame => RowsAfterSmoothing = 9 /\ InsufficientResult(ret)
        /\ TwentyPercentFrame /\ Len(arg) >= 15 =>
              /\ "metrics" \in DOMAIN ret
              /\ ret.metrics.share_recent_avg = 200
              /\ ret.metrics.corr_recent_avg # NoneVal =>
                    /\ ret.aligned = TRUE
                    /\ ret.metrics.corr_recent_avg = 1000
                    /\ ret.metrics.alignment_score = 760

\* the 12-week example has gone through a check
C9_Witness ==
    /\ call \in AlignmentCalls
    /\ IsExampleFrame
    /\ Len(arg) = 12
    /\ ret.aligned = FALSE
    /\ ret.reason = "Insufficient data"

(***************************************************************************)
(* C10                                                                     *)
(***************************************************************************)

PremiumStepMasters == { SegmentRows("prepaid", p) : p \in PremiumStepProfiles }

\* in a premium step series: the number of weeks of 60 adds, i.e. weeks after the step
WeeksAfterStep(df) == (Len(df) - 40 * df[Len(df)].week_start) \div 20

\* both regimes are long enough for the detector to compute its metrics
PremiumStepMeasured ==
    /\ call = "_detect_prepaid_driver"
    /\ arg \in PremiumStepMasters
    /\ "metrics" \in DOMAIN ret

\* C10 as stated: every prepaid series that steps from 5% to 25% premium share
\* with 1.5 times the weekly volume, with enough weeks on both sides, is detected
\* with confidence "high", also when share and volume were flat for the last 6
\* smoothed weeks.
C10_StepDetected_AsStated ==
    PremiumStepMeasured => ret.detected = TRUE /\ ret.confidence = "high"

\* C10 amended: such a series is detected with confidence "high" when the step
\* lies within the last 6 smoothed weeks (at most 8 weeks after the step); once
\* share and volume have been flat for the last 6 smoothed weeks (9 weeks or more
\* after the step) the recent correlation is undefined and the result is
\* detected=false with confidence "low".
C10_StepDetectedWhileRecent ==
    PremiumStepMeasured =>
        IF WeeksAfterStep(arg) <= 8
        THEN ret.detected = TRUE /\ ret.confidence = "high"
        ELSE /\ ret.detected = FALSE
             /\ ret.confidence = "low"
             /\ ret.metrics.recent_correlation = NaN

\* the step is 9 weeks old: flat recent weeks, not detected
C10_Witness ==
    /\ PremiumStepMeasured
    /\ WeeksAfterStep(arg) = 9
    /\ ret.detected = FALSE
    /\ ret.metrics.share_delta >= 100
    /\ ret.metrics.adds_ratio >= 1200

(***************************************************************************)
(* C11                                                                     *)
(***************************************************************************)

\* the largest factor between a driver and its target in the tables of the model
MaxFactor == 5

\* every week carries both counts and the target is k times the driver, for one
\* whole k >= 1: the zeros of the two columns fall in the same weeks
ScalarMultipleFrame(df, target_col, driver_col) ==
    /\ Len(df) > 0
    /\ \E k \in 1..MaxFactor :
          \A i \in 1..Len(df) :
              /\ df[i][driver_col] # NaN
              /\ df[i][target_col] # NaN
              /\ df[i][target_col] = k * df[i][driver_col]

\* the count of week w in column col (one row per week)
CellOfWeek(df, col, w) == df[CHOOSE i \in 1..Len(df) : df[i].week_start = w][col]

\* the 4-week sum that ends at week w
SmoothedAt(df, col, w) ==
    CellOfWeek(df, col, w - 3) + CellOfWeek(df, col, w - 2)
        + CellOfWeek(df, col, w - 1) + CellOfWeek(df, col, w)

\* weeks run from 1: the 4-week window is filled from week 4 on and the 8-row
\* correlation window from week 11 on; the smoothed driver moves inside the
\* correlation window that ends at week w
WindowMoves(df, col, w) ==
    /\ w >= 11
    /\ \E v \in (w - 7)..w : SmoothedAt(df, col, v) # SmoothedAt(df, col, w)

\* one of the last 8 rows of the spine has a correlation window in which the
\* smoothed driver moves
RecentWindowMoves(df, col) ==
    \E w \in (Len(df) - 7)..Len(df) : WindowMoves(df, col, w)

\* C11 as stated: for a target that is a positive multiple of the driver, long
\* enough to pass the floor, the rolling correlation is 1.0 at every row where
\* both windows are filled and corr_recent_avg >= 0.60, also for series that are
\* constant over a correlation window.
C11_ScalarMultiple_AsStated ==
    /\ call = "_build_spine" /\ ScalarMultipleFrame(arg[1], arg[3], arg[4]) /\ ret # NoSpine =>
          \A i \in 1..Len(ret) : i >= 8 => ret[i].rolling_corr = 1000
    /\ call \in AlignmentCalls /\ "metrics" \in DOMAIN ret
          /\ ScalarMultipleFrame(arg, TargetColOf(call), DriverColOf(call)) =>
          MetricGeq(ret.metrics.corr_recent_avg, 600)

\* C11 amended: for such a pair of series the rolling correlation is 1.0 at every
\* row where both windows are filled and the smoothed series moves inside the
\* correlation window, and it is undefined at every row whose correlation window
\* is constant (and before the windows are filled); corr_recent_avg is 1.0, hence
\* >= 0.60, when one of the last 8 rows has a window that moves, and null, hence
\* not >= 0.60 and not aligned, when the last 8 windows are all constant.
C11_ScalarMultipleUnlessConstant ==
    /\ call = "_build_spine" /\ ScalarMultipleFrame(arg[1], arg[3], arg[4]) /\ ret # NoSpine =>
          \A i \in 1..Len(ret) :
              ret[i].rolling_corr =
                  IF WindowMoves(arg[1], arg[4], ret[i].week_start) THEN 1000 ELSE NaN
    /\ call \in AlignmentCalls /\ "metrics" \in DOMAIN ret
          /\ ScalarMultipleFrame(arg, TargetColOf(call), DriverColOf(call)) =>
          IF RecentWindowMoves(arg, DriverColOf(call))
          THEN ret.metrics.corr_recent_avg = 1000
          ELSE ret.metrics.corr_recent_avg = NoneVal /\ ret.aligned = FALSE

\* a constant pair of series of 16 weeks: every window is filled and constant
C11_Witness ==
    /\ call \in AlignmentCalls
    /\ "metrics" \in DOMAIN ret
    /\ ScalarMultipleFrame(arg, TargetColOf(call), DriverColOf(call))
    /\ Len(arg) = 16
    /\ \A i \in 1..Len(arg) : arg[i][DriverColOf(call)] = 1
    /\ ret.metrics.corr_recent_avg = NoneVal
    /\ ret.metrics.share_recent_avg = 200

(***************************************************************************)
(* C12                                                                     *)
(***************************************************************************)

\* the positions of a "gb" that follows a digit, in a lower-case name
GbAfterDigit(low) ==
    { g \in 2..(Len(low) - 1) : low[g] = "g" /\ low[g + 1] = "b" /\ IsDigit(low[g - 1]) }

\* the whole number that ends right before position g
NumberBefore(low, g) ==
    LET start == CHOOSE i \in 1..(g - 1) :
                    /\ \A j \in i..(g - 1) : IsDigit(low[j])
                    /\ (i = 1 \/ ~IsDigit(low[i - 1]))
    IN IntOf(SubSeq(low, start, g - 1))

\* the classification the claim describes: "unlimited" first, then the first
\* whole number immediately followed by "gb", which must exceed 50
ClaimedHighTier(product_name) ==
    IF product_name = NoName THEN FALSE
    ELSE LET low == Lower(product_name)
         IN IF Contains(low, <<"u", "n", "l", "i", "m", "i", "t", "e", "d">>) THEN TRUE
            ELSE IF GbAfterDigit(low) = {} THEN FALSE
            ELSE NumberBefore(low, SetMin(GbAfterDigit(low))) > 50

\* C12: the premium tier classifier gives a boolean for every name, the empty, the
\* absent and the unparseable ones included: true when the name contains
\* "unlimited" in any case, whatever number it also holds; otherwise true exactly
\* when the first whole number immediately followed by "gb" exceeds 50; otherwise
\* false.  "Unlimited Data Plan" and "60GB Plan" are premium, "50GB Plan",
\* "40GB Plan" and "" are not.
C12_HighTierClassifier ==
    call = "_is_high_tier" =>
        /\ ret \in BOOLEAN
        /\ ret = ClaimedHighTier(arg)
        /\ arg \in {NameUnlimited, Name60GB, NameUnlimited10GB, Name10GBUnlimited} => ret = TRUE
        /\ arg \in {Name40GB, Name50GB, NameEmpty, NoName} => ret = FALSE

\* exactly 50 GB is not premium
C12_Witness ==
    /\ call = "_is_high_tier"
    /\ arg = Name50GB
    /\ ret = FALSE

(***************************************************************************)
(* C13                                                                     *)
(***************************************************************************)

\* the literal fields of the "no driver" stub; {} is the empty mapping
NoDriverStub ==
    [ driver |-> "no_structural_driver_detected", aligned |-> FALSE,
      confidence |-> "low", metrics |-> <<>> ]

\* C13: whatever the four tables are, the prepaid churn table included, the
\* composite of detect_add_churn_drivers holds at prepaid/churn exactly the stub
\* (driver "no_structural_driver_detected", aligned false, confidence "low",
\* metrics {}), and its keys are exactly postpaid/{adds, churn} and
\* prepaid/{adds, churn}.
C13_StubThroughComposite ==
    call = "detect_add_churn_drivers" =>
        /\ DOMAIN ret = {"add_churn_driver_analysis"}
        /\ DOMAIN ret.add_churn_driver_analysis = {"postpaid", "prepaid"}
        /\ DOMAIN ret.add_churn_driver_analysis.postpaid = {"adds", "churn"}
        /\ DOMAIN ret.add_churn_driver_analysis.prepaid = {"adds", "churn"}
        /\ ret.add_churn_driver_analysis.prepaid.churn = NoDriverStub
        /\ DOMAIN ret.add_churn_driver_analysis.prepaid.churn
              = {"driver", "aligned", "confidence", "metrics"}

\* a prepaid churn table on which a real check finds alignment, next to a
\* postpaid churn table on which it does: the stub is returned all the same
C13_Witness ==
    /\ call = "detect_add_churn_drivers"
    /\ arg[4] = Frame(MovingProfile(MaxWeeks), "churn", "is_competitive")
    /\ arg[2] = arg[4]
    /\ ret.add_churn_driver_analysis.postpaid.churn.aligned = TRUE
    /\ ret.add_churn_driver_analysis.prepaid.churn = NoDriverStub

(***************************************************************************)
(* C14                                                                     *)
(***************************************************************************)

\* the table holds a record of the segment
HasSegment(master_df, segment) == \E i \in 1..Len(master_df) : master_df[i].segment = segment

\* a not-detected result of the shape of the insufficient-data result:
\* the segment, detected = false and a reason, nothing else
NotDetectedWithReason(r, segment) ==
    /\ DOMAIN r = {"segment", "detected", "reason"}
    /\ r.segment = segment
    /\ r.detected = FALSE

\* C14: when the master table holds no record of a segment, the regime-shift check
\* of that segment returns a not-detected result with a reason, of the shape of
\* the insufficient-data result; in the composite the check of the other segment
\* is computed as it is on its own.
C14_MissingSegmentIsStructured ==
    /\ call = "_detect_prepaid_driver" /\ ~HasSegment(arg, "prepaid") =>
          NotDetectedWithReason(ret, "prepaid") /\ ret.reason = "No prepaid data"
    /\ call = "_detect_postpaid_driver" /\ ~HasSegment(arg, "postpaid") =>
          NotDetectedWithReason(ret, "postpaid") /\ ret.reason = "No postpaid data"
    /\ call \in RegimeCalls /\ "reason" \in DOMAIN ret /\ ret.reason = "Insufficient data" =>
          NotDetectedWithReason(ret, ret.segment)
    /\ call = "detect_subscription_drivers" =>
          LET r == ret.subscription_driver_analysis
          IN /\ DOMAIN r = {"prepaid", "postpaid"}
             /\ ~HasSegment(arg, "prepaid") =>
                   /\ NotDetectedWithReason(r.prepaid, "prepaid")
                   /\ r.prepaid.reason = "No prepaid data"
             /\ ~HasSegment(arg, "postpaid") =>
                   /\ NotDetectedWithReason(r.postpaid, "postpaid")
                   /\ r.postpaid.reason = "No postpaid data"
             /\ ~HasSegment(arg, "prepaid") => r.postpaid = DetectPostpaidDriver(arg)
             /\ ~HasSegment(arg, "postpaid") => r.prepaid = DetectPrepaidDriver(arg)

\* a table without prepaid records and with a long postpaid series: the prepaid
\* check reports the missing segment, the postpaid check computes its metrics
C14_Witness ==
    /\ call = "detect_subscription_drivers"
    /\ ~HasSegment(arg, "prepaid")
    /\ ret.subscription_driver_analysis.prepaid.reason = "No prepaid data"
    /\ "metrics" \in DOMAIN ret.subscription_driver_analysis.postpaid
    /\ ret.subscription_driver_analysis.postpaid.detected = TRUE

(***************************************************************************)
(* C18                                                                     *)
(***************************************************************************)

ForecastCalls == { "run_subscription_forecast", "run_add_churn_forecast" }

ModelsOf(c) ==
    IF c = "run_subscription_forecast" THEN { "prepaid_model", "postpaid_model" }
    ELSE { "prepaid_adds_model", "prepaid_churn_model",
           "postpaid_adds_model", "postpaid_churn_model" }

\* days from the last training date to today, 0 when the date lies ahead
ClaimedGap == IF arg.today > arg.last_train_date THEN arg.today - arg.last_train_date ELSE 0

\* C18: for every horizon of 1 day or more and every last training date, each
\* forecast runner asks each of its models for gap_days + horizon_days steps and
\* returns exactly horizon_days rows of consecutive days; when the last training
\* date is not after today the rows are those of today+1 .. today+horizon_days.
C18_ForecastBridgesGap ==
    call \in ForecastCalls =>
        /\ DOMAIN ret.requests = ModelsOf(call)
        /\ \A m \in ModelsOf(call) : ret.requests[m] = ClaimedGap + arg.horizon_days
        /\ Len(ret.output) = arg.horizon_days
        /\ \A i \in 1..(Len(ret.output) - 1) : ret.output[i + 1].date = ret.output[i].date + 1
        /\ arg.last_train_date <= arg.today =>
              \A i \in 1..Len(ret.output) : ret.output[i].date = arg.today + i

\* a gap of 3 days and a horizon of 2: 5 steps asked, the days today+1 and today+2 returned
C18_Witness ==
    /\ call = "run_subscription_forecast"
    /\ arg.horizon_days = 2
    /\ arg.today - arg.last_train_date = 3
    /\ ret.requests.prepaid_model = 5
    /\ Len(ret.output) = 2
    /\ ret.output[1].date = arg.today + 1

(***************************************************************************)
(* C19                                                                     *)
(***************************************************************************)

\* the smoothed weekly series of the prepaid records of the table
PrepaidSmoothed == RegimeSpine(SelectSeq(arg, LAMBDA r : r.segment = "prepaid"), "high")

\* the weeks of the post-regime: smoothed premium share of 0.15 or more
PostRegimeWeeks == Len(SelectSeq(PrepaidSmoothed, LAMBDA r : r.share_4w >= 150))

NotDetectedNoMetrics(r) ==
    /\ r.detected = FALSE
    /\ "reason" \in DOMAIN r
    /\ "metrics" \notin DOMAIN r

\* C19 as stated: in the premium-shift check fewer than 4 post-regime weeks give
\* not-detected with a reason and no metrics, and 4 or more post-regime weeks
\* always give metrics, the 4 post-regime weeks being the only size requirement on
\* the smoothed series.
C19_PostRegimeOnlyFloor_AsStated ==
    call = "_detect_prepaid_driver" /\ HasSegment(arg, "prepaid") =>
        /\ PostRegimeWeeks < 4 => NotDetectedNoMetrics(ret)
        /\ PostRegimeWeeks >= 4 => "metrics" \in DOMAIN ret

\* C19 amended: fewer than 4 post-regime weeks give not-detected with a reason and
\* no metrics; the check computes metrics exactly when the post-regime has 4 weeks
\* or more and the smoothed series has 8 weeks or more: a smoothed series of fewer
\* than 8 weeks is turned away first, with reason "Insufficient data", whatever
\* its post-regime.
C19_PostRegimeAndRowFloor ==
    call = "_detect_prepaid_driver" /\ HasSegment(arg, "prepaid") =>
        /\ PostRegimeWeeks < 4 => NotDetectedNoMetrics(ret)
        /\ Len(PrepaidSmoothed) < 8 =>
              NotDetectedNoMetrics(ret) /\ ret.reason = "Insufficient data"
        /\ Len(PrepaidSmoothed) >= 8 /\ PostRegimeWeeks < 4 => ret.reason = "No premium regime"
        /\ "metrics" \in DOMAIN ret <=> (Len(PrepaidSmoothed) >= 8 /\ PostRegimeWeeks >= 4)

\* 7 smoothed weeks, all of them in the post-regime: turned away by the row floor
C19_Witness ==
    /\ call = "_detect_prepaid_driver"
    /\ HasSegment(arg, "prepaid")
    /\ Len(PrepaidSmoothed) = 7
    /\ PostRegimeWeeks = 7
    /\ ret.reason = "Insufficient data"
    /\ "metrics" \notin DOMAIN ret

(***************************************************************************)
(* C20                                                                     *)
(***************************************************************************)

\* the weekly rows of the postpaid series before smoothing: its distinct weeks
PostpaidWeeklyRows ==
    Cardinality({ arg[i].week_start : i \in { j \in 1..Len(arg) : arg[j].segment = "postpaid" } })

\* C20: in the value-mix check a postpaid series with fewer than 16 weeks left
\* after the 4-week smoothing, that is fewer than 19 weekly rows before it,
\* returns detected=false with a reason and no metrics; with 16 smoothed weeks or
\* more the metrics are computed.
C20_SixteenSmoothedWeeks ==
    call = "_detect_postpaid_driver" =>
        /\ PostpaidWeeklyRows < 19 => NotDetectedNoMetrics(ret)
        /\ PostpaidWeeklyRows >= 19 =>
              /\ "metrics" \in DOMAIN ret
              /\ "reason" \notin DOMAIN ret
        /\ "metrics" \in DOMAIN ret =>
              DOMAIN ret.metrics = { "adds_ratio", "share_delta", "recent_correlation",
                                     "avg_adds_previous", "avg_adds_recent",
                                     "value_share_previous", "value_share_recent" }

\* 19 weekly rows leave exactly 16 smoothed weeks: metrics are computed
C20_Witness ==
    /\ call = "_detect_postpaid_driver"
    /\ PostpaidWeeklyRows = 19
    /\ "metrics" \in DOMAIN ret

(***************************************************************************)
(* C15                                                                     *)
(***************************************************************************)

IsPrefix(s, t) == Len(s) <= Len(t) /\ s = SubSeq(t, 1, Len(s))

SubscriptionSteps ==
    << "run_subscription_forecast", "detect_subscription_drivers",
       "generate_subscription_driver_narrative" >>

AddChurnSteps ==
    << "run_add_churn_forecast", "detect_add_churn_drivers",
       "generate_add_churn_driver_narrative" >>

NarratorCalls ==
    { "generate_subscription_driver_narrative", "generate_add_churn_driver_narrative" }

\* the state is inside, or at the return of, the named analysis
InSubscriptionAnalysis ==
    pc \in { "subscription:forecast", "subscription:drivers", "subscription:narration" }
        \/ call = "run_subscription_analysis"

InAddChurnAnalysis ==
    pc \in { "add_churn:forecast", "add_churn:drivers", "add_churn:narration" }
        \/ call = "run_add_churn_analysis"

\* C17: in each analysis the calls are made in the order forecast, detection,
\* narration; the narrator is called only once the detection has returned and is
\* handed exactly the driver result of that detection, never the tables or the
\* forecast; the "drivers" field returned is that same result.
C17_ForecastDetectNarrate ==
    /\ InSubscriptionAnalysis => IsPrefix(trace, SubscriptionSteps)
    /\ InAddChurnAnalysis => IsPrefix(trace, AddChurnSteps)
    /\ call \in { "detect_subscription_drivers", "detect_add_churn_drivers" }
          /\ (InSubscriptionAnalysis \/ InAddChurnAnalysis) => locals.drivers = ret
    /\ call \in NarratorCalls =>
          /\ Len(trace) = 3
          /\ arg = locals.drivers
          /\ DOMAIN arg \in { {"subscription_driver_analysis"}, {"add_churn_driver_analysis"} }
    /\ call \in { "run_subscription_analysis", "run_add_churn_analysis" } =>
          /\ Len(trace) = 3
          /\ DOMAIN ret = { "forecast", "drivers", "narration" }
          /\ ret.drivers = locals.drivers
          /\ ret.drivers = locals.driver_context
          /\ ret.forecast = locals.forecast
          /\ ret.narration = locals.narration

\* a subscription analysis has returned: three calls in order, the narrator was
\* handed the drivers that are returned
C17_Witness ==
    /\ call = "run_subscription_analysis"
    /\ trace = SubscriptionSteps
    /\ locals.driver_context = ret.drivers
    /\ "metrics" \in DOMAIN ret.drivers.subscription_driver_analysis.postpaid

(***************************************************************************)
(* C21                                                                     *)
(***************************************************************************)

\* s is the quotient d / t in whole thousandths
IsQuotient(s, d, t) == s # NaN /\ s * t <= Scale * d /\ Scale * d < (s + 1) * t

\* C21: in every row of a spine the driver share is the driver rolling sum over
\* the target rolling sum when the target rolling sum is not zero, and is null
\* exactly when it is zero, 0/0 included: no fault on a zero target, no null
\* share on a target that is not zero.
C21_ShareNullIffZeroTarget ==
    call = "_build_spine" /\ ret # NoSpine =>
        \A i \in 1..Len(ret) :
            /\ ret[i].adds_rw # NaN /\ ret[i].is_retail_rw # NaN
            /\ ret[i].adds_rw = 0 <=> ret[i].driver_share = NaN
            /\ ret[i].adds_rw # 0 =>
                  IsQuotient(ret[i].driver_share, ret[i].is_retail_rw, ret[i].adds_rw)

\* a spine with a row whose target window is empty (0/0) and a row with a share
\* strictly between 0 and 1
C21_Witness ==
    /\ call = "_build_spine"
    /\ ret # NoSpine
    /\ \E i \in 1..Len(ret) :
          ret[i].adds_rw = 0 /\ ret[i].is_retail_rw = 0 /\ ret[i].driver_share = NaN
    /\ \E i \in 1..Len(ret) :
          ret[i].adds_rw > 0 /\ ret[i].driver_share > 0 /\ ret[i].driver_share < Scale

(***************************************************************************)
(* C22                                                                     *)
(***************************************************************************)

\* q is a / b in whole units, b > 0
IsFloorDiv(q, a, b) == q # NaN /\ q * b <= a /\ a < (q + 1) * b

\* the smoothed weekly series of the segment the detector called looks at
SegmentSmoothed ==
    IF call = "_detect_prepaid_driver"
    THEN RegimeSpine(SelectSeq(arg, LAMBDA r : r.segment = "prepaid"), "high")
    ELSE RegimeSpine(SelectSeq(arg, LAMBDA r : r.segment = "postpaid"), "value")

\* the earlier and the later regime of the detector called
EarlierRegime(spine) ==
    IF call = "_detect_prepaid_driver"
    THEN SelectSeq(spine, LAMBDA r : r.share_4w < 150)
    ELSE SubSeq(spine, Len(spine) - 15, Len(spine) - 8)

LaterRegime(spine) ==
    IF call = "_detect_prepaid_driver"
    THEN SelectSeq(spine, LAMBDA r : r.share_4w >= 150)
    ELSE SubSeq(spine, Len(spine) - 7, Len(spine))

\* the means the detector reports for the two regimes
ReportedMeans(m) ==
    IF call = "_detect_prepaid_driver"
    THEN [ adds_earlier |-> m.avg_adds_pre, adds_later |-> m.avg_adds_post,
           share_earlier |-> m.high_share_pre, share_later |-> m.high_share_post ]
    ELSE [ adds_earlier |-> m.avg_adds_previous, adds_later |-> m.avg_adds_recent,
           share_earlier |-> m.value_share_previous, share_later |-> m.value_share_recent ]

\* the reported means are the means of adds_4w and share_4w over the two regimes
MeansOfRegimes(means, earlier, later) ==
    /\ IsFloorDiv(means.adds_earlier, Scale * SumSeq(Col(earlier, "adds_4w")), Len(earlier))
    /\ IsFloorDiv(means.adds_later, Scale * SumSeq(Col(later, "adds_4w")), Len(later))
    /\ IsFloorDiv(means.share_earlier, SumSeq(Col(earlier, "share_4w")), Len(earlier))
    /\ IsFloorDiv(means.share_later, SumSeq(Col(later, "share_4w")), Len(later))

\* the two metrics follow from the means as claimed
RatioAndDelta(m, means) ==
    /\ means.adds_earlier > 0 => IsFloorDiv(m.adds_ratio, Scale * means.adds_later, means.adds_earlier)
    /\ means.adds_earlier = 0 => m.adds_ratio = 0
    /\ m.share_delta = means.share_later - means.share_earlier

\* C22: in both regime-shift checks, when both regimes hold weeks, adds_ratio is
\* the mean of adds_4w over the later regime divided by its mean over the earlier
\* regime when that mean is positive and 0 when it is 0, and share_delta is the
\* mean smoothed share of the later regime minus that of the earlier regime.
C22_RatioAndDeltaOfRegimeMeans ==
    /\ \A later \in { 0, Scale, 240 * Scale } : AddsRatio(later, 0) = 0
    /\ call \in RegimeCalls /\ "metrics" \in DOMAIN ret /\ EarlierRegime(SegmentSmoothed) # <<>> =>
          /\ MeansOfRegimes(ReportedMeans(ret.metrics), EarlierRegime(SegmentSmoothed),
                            LaterRegime(SegmentSmoothed))
          /\ RatioAndDelta(ret.metrics, ReportedMeans(ret.metrics))

\* a premium shift with more volume and more premium share in the later regime
C22_Witness ==
    /\ call = "_detect_prepaid_driver"
    /\ "metrics" \in DOMAIN ret
    /\ EarlierRegime(SegmentSmoothed) # <<>>
    /\ ret.metrics.avg_adds_pre > 0
    /\ ret.metrics.adds_ratio > Scale
    /\ ret.metrics.share_delta > 0

(***************************************************************************)
(* C23                                                                     *)
(***************************************************************************)

\* the smoothed weekly series of the postpaid records of a master table
PostpaidSmoothed(master_df) ==
    RegimeSpine(SelectSeq(master_df, LAMBDA r : r.segment = "postpaid"), "value")

\* the earliest week that holds a postpaid record
EarliestPostpaidWeek(master_df) ==
    SetMin({ master_df[i].week_start :
                i \in { j \in 1..Len(master_df) : master_df[j].segment = "postpaid" } })

\* the table with the postpaid records of its earliest week replaced by 9 other
\* records, all of the value tier
WithEarliestWeekChanged(master_df) ==
    SelectSeq(master_df, LAMBDA r : ~(r.segment = "postpaid"
                                      /\ r.week_start = EarliestPostpaidWeek(master_df)))
    \o WeekRows("postpaid", EarliestPostpaidWeek(master_df), 9, 9)

\* the two metrics and the four means of a result are those of another result
SameRegimeMetrics(a, b) ==
    /\ a.adds_ratio = b.adds_ratio
    /\ a.share_delta = b.share_delta
    /\ a.avg_adds_previous = b.avg_adds_previous
    /\ a.avg_adds_recent = b.avg_adds_recent
    /\ a.value_share_previous = b.value_share_previous
    /\ a.value_share_recent = b.value_share_recent

\* the postpaid check was called on a series of more than 16 smoothed weeks
LongPostpaidSeries ==
    /\ call = "_detect_postpaid_driver"
    /\ HasSegment(arg, "postpaid")
    /\ Len(PostpaidSmoothed(arg)) > 16

\* the means reported are those of rows n-15..n-8 and n-7..n of the smoothed series
MeansOfLastSixteen(m, spine) ==
    /\ IsFloorDiv(m.avg_adds_recent,
                  Scale * SumSeq(Col(SubSeq(spine, Len(spine) - 7, Len(spine)), "adds_4w")), 8)
    /\ IsFloorDiv(m.avg_adds_previous,
                  Scale * SumSeq(Col(SubSeq(spine, Len(spine) - 15, Len(spine) - 8), "adds_4w")), 8)
    /\ IsFloorDiv(m.value_share_recent,
                  SumSeq(Col(SubSeq(spine, Len(spine) - 7, Len(spine)), "share_4w")), 8)
    /\ IsFloorDiv(m.value_share_previous,
                  SumSeq(Col(SubSeq(spine, Len(spine) - 15, Len(spine) - 8), "share_4w")), 8)

\* C23: in the value-mix check the recent regime is the last 8 smoothed weeks and
\* the previous regime the 8 smoothed weeks just before them, by position: on a
\* series of 16 smoothed weeks or more the means are those of these rows, and
\* changing a week that lies before the last 16 smoothed rows leaves adds_ratio
\* and share_delta as they were.
C23_OnlyLastSixteenWeeks ==
    /\ call = "_detect_postpaid_driver" /\ "metrics" \in DOMAIN ret =>
          MeansOfLastSixteen(ret.metrics, PostpaidSmoothed(arg))
    /\ LongPostpaidSeries =>
          /\ TailN(PostpaidSmoothed(WithEarliestWeekChanged(arg)), 16)
                = TailN(PostpaidSmoothed(arg), 16)
          /\ SameRegimeMetrics(DetectPostpaidDriver(WithEarliestWeekChanged(arg)).metrics,
                               ret.metrics)

\* a series of 17 smoothed weeks whose first smoothed row changes with the
\* earliest week, and whose regimes differ in volume and share
C23_Witness ==
    /\ LongPostpaidSeries
    /\ PostpaidSmoothed(WithEarliestWeekChanged(arg))[1] # PostpaidSmoothed(arg)[1]
    /\ ret.metrics.adds_ratio > Scale
    /\ ret.metrics.share_delta # 0

(***************************************************************************)
(* C24                                                                     *)
(***************************************************************************)

\* one row per week and no count missing
WeeklyNoMissing(df, target_col, driver_col) ==
    /\ \A i, j \in 1..Len(df) : i # j => df[i].week_start # df[j].week_start
    /\ \A i \in 1..Len(df) : df[i][target_col] # NaN /\ df[i][driver_col] # NaN

\* the rows of df of week w and of the 3 weeks of df just before it
WeekAndThreeBefore(df, w) ==
    { j \in 1..Len(df) :
        /\ df[j].week_start <= w
        /\ Cardinality({ k \in 1..Len(df) :
                            df[k].week_start > df[j].week_start /\ df[k].week_start <= w }) < 4 }

RECURSIVE SumOver(_, _, _)
SumOver(df, col, rows) ==
    IF rows = {} THEN 0
    ELSE LET j == CHOOSE x \in rows : TRUE
         IN df[j][col] + SumOver(df, col, rows \ {j})

\* spine is the smoothed series of df: n - 3 rows in ascending week order, each
\* rolling sum the sum over its week and the 3 weeks before
IsSmoothedSeriesOf(spine, df, target_col, driver_col) ==
    /\ Len(spine) = Max2(Len(df) - 3, 0)
    /\ \A i \in 1..(Len(spine) - 1) : spine[i].week_start < spine[i + 1].week_start
    /\ \A i \in 1..Len(spine) :
          /\ Cardinality(WeekAndThreeBefore(df, spine[i].week_start)) = 4
          /\ spine[i][RwCol(target_col)]
                = SumOver(df, target_col, WeekAndThreeBefore(df, spine[i].week_start))
          /\ spine[i][RwCol(driver_col)]
                = SumOver(df, driver_col, WeekAndThreeBefore(df, spine[i].week_start))

\* C24: the spine builder sorts by week and drops the rows whose 4-week rolling
\* sum is undefined: n weekly rows without a missing count, in any order, leave
\* max(n - 3, 0) smoothed rows in ascending week order, each rolling sum being
\* the sum of its week and the 3 weeks before; the builder returns a spine, of
\* these rows, exactly when n is 15 or more.
C24_SortedAndDropped ==
    call = "_build_spine" /\ WeeklyNoMissing(arg[1], arg[3], arg[4]) =>
        /\ IsSmoothedSeriesOf(SmoothedRows(arg[1], arg[2], arg[3], arg[4]),
                              arg[1], arg[3], arg[4])
        /\ ret = NoSpine <=> Len(arg[1]) < 15
        /\ ret # NoSpine => IsSmoothedSeriesOf(ret, arg[1], arg[3], arg[4])

\* a table of 15 weeks handed over out of week order: a spine of 12 rows
C24_Witness ==
    /\ call = "_build_spine"
    /\ WeeklyNoMissing(arg[1], arg[3], arg[4])
    /\ Len(arg[1]) = 15
    /\ \E i \in 1..14 : arg[1][i].week_start > arg[1][i + 1].week_start
    /\ ret # NoSpine
    /\ Len(ret) = 12
    /\ ret[1].week_start = 4

(***************************************************************************)
(* C25                                                                     *)
(***************************************************************************)

\* the premium-shift check was called on a series of 8 smoothed weeks or more
\* that all lie in the post-regime: the pre-regime is empty
AllInPostRegime(spine) ==
    Len(spine) >= 8 /\ \A i \in 1..Len(spine) : spine[i].share_4w >= 150

EmptyPreRegime ==
    /\ call = "_detect_prepaid_driver"
    /\ HasSegment(arg, "prepaid")
    /\ AllInPostRegime(PrepaidSmoothed)

\* C25: when every smoothed week of the premium-shift check lies in the
\* post-regime, the check returns a result with metrics, detected=false and
\* confidence "low": adds_ratio is 0 and share_delta is undefined, whatever the
\* volume growth and the correlation.
C25_EmptyPreRegimeNotDetected ==
    EmptyPreRegime =>
        /\ "metrics" \in DOMAIN ret
        /\ "reason" \notin DOMAIN ret
        /\ ret.detected = FALSE
        /\ ret.confidence = "low"
        /\ ret.metrics.adds_ratio = 0
        /\ ret.metrics.share_delta = NaN
        /\ ret.metrics.avg_adds_pre = NaN
        /\ ret.metrics.high_share_pre = NaN

\* premium share above the threshold throughout, volume and share rising together
\* over the recent weeks: a correlation that passes its gate, yet not detected
C25_Witness ==
    /\ EmptyPreRegime
    /\ ret.metrics.recent_correlation >= 600
    /\ ret.metrics.avg_adds_post > Scale * PrepaidSmoothed[1].adds_4w
    /\ ret.detected = FALSE
    /\ ret.metrics.adds_ratio = 0

(***************************************************************************)
(* C26                                                                     *)
(***************************************************************************)

\* the spine an alignment check builds from its table
SpineOfCheck == BuildSpine(arg, "week_start", TargetColOf(call), DriverColOf(call))

\* the rolling correlation is undefined at each of the last 8 rows of the spine
CorrUndefinedAtRowsUsed(spine) ==
    \A i \in 1..Len(spine) : i > Len(spine) - 8 => spine[i].rolling_corr = NaN

\* a column holds one value over the last k rows of a table
ConstantOverLast(rows, col, k) ==
    \A i, j \in 1..Len(rows) :
        i > Len(rows) - k /\ j > Len(rows) - k => rows[i][col] = rows[j][col]

\* what the summary returns when the correlation is undefined: not aligned,
\* "low", the correlation fields null, the score 0.3 of the share component
UndefinedCorrSummary(aligned, confidence, m) ==
    /\ aligned = FALSE
    /\ confidence = "low"
    /\ m.corr_latest = NoneVal
    /\ m.corr_recent_avg = NoneVal
    /\ IsFloorDiv(m.alignment_score,
                  3 * (IF m.share_recent_avg = NoneVal THEN 0
                       ELSE Min2(Max2(m.share_recent_avg, 0), Scale)),
                  10)

\* an alignment check on a table that is long enough
AlignmentCheckWithMetrics == call \in AlignmentCalls /\ "metrics" \in DOMAIN ret

\* a regime-shift check that computed its metrics
RegimeCheckWithMetrics == call \in RegimeCalls /\ "metrics" \in DOMAIN ret

\* C26: an undefined correlation never gives a positive classification.  When the
\* rolling correlation is undefined at the rows the summary uses, as it is when
\* the driver or the target signal is constant over the correlation windows, an
\* alignment check returns aligned=false, confidence "low" and metrics with null
\* correlation fields and alignment_score = 0.3 * share component; a regime-shift
\* check whose recent correlation is undefined, as it is over a constant window
\* of 6 weeks, returns detected=false with confidence "low".
C26_UndefinedCorrNeverPositive ==
    /\ AlignmentCheckWithMetrics =>
          /\ (ConstantOverLast(SpineOfCheck, RwCol(TargetColOf(call)), 15)
                \/ ConstantOverLast(SpineOfCheck, RwCol(DriverColOf(call)), 15))
                => CorrUndefinedAtRowsUsed(SpineOfCheck)
          /\ CorrUndefinedAtRowsUsed(SpineOfCheck) =>
                UndefinedCorrSummary(ret.aligned, ret.confidence, ret.metrics)
    /\ call = "_summarize_alignment" /\ CorrUndefinedAtRowsUsed(arg) =>
          UndefinedCorrSummary(ret[1], ret[2], ret[3])
    /\ RegimeCheckWithMetrics =>
          /\ (ConstantOverLast(SegmentSmoothed, "share_4w", 6)
                \/ ConstantOverLast(SegmentSmoothed, "adds_4w", 6))
                => ret.metrics.recent_correlation = NaN
          /\ ret.metrics.recent_correlation = NaN =>
                ret.detected = FALSE /\ ret.confidence = "low"

\* a premium shift whose share and volume gates pass while share and volume have
\* been flat over the last 6 smoothed weeks: not detected
C26_Witness ==
    /\ RegimeCheckWithMetrics
    /\ call = "_detect_prepaid_driver"
    /\ ConstantOverLast(SegmentSmoothed, "share_4w", 6)
    /\ ret.metrics.recent_correlation = NaN
    /\ ret.metrics.share_delta >= 100
    /\ ret.metrics.adds_ratio >= 1200
    /\ ret.detected = FALSE
    /\ ret.confidence = "low"

(***************************************************************************)
(* C27                                                                     *)
(***************************************************************************)

SegmentOf(c) == IF c = "_detect_prepaid_driver" THEN "prepaid" ELSE "postpaid"

TierOf(c) == IF c = "_detect_prepaid_driver" THEN "high" ELSE "value"

\* the distinct identifiers of the records of week w, all of them or those of
\* the driver tier only
IdsOfWeek(df, w) ==
    { df[i].unique_subscription_id : i \in { j \in 1..Len(df) : df[j].week_start = w } }

DriverIdsOfWeek(df, is_driver, w) ==
    { df[i].unique_subscription_id :
        i \in { j \in 1..Len(df) : df[j].week_start = w /\ is_driver[df[j].product_name] } }

\* the weekly table counts distinct identifiers, the driver count within the total
CountsDistinctIds(weekly, df, is_driver) ==
    \A i \in 1..Len(weekly) :
        /\ weekly[i].total_adds = Cardinality(IdsOfWeek(df, weekly[i].week_start))
        /\ weekly[i].driver_adds
              = Cardinality(DriverIdsOfWeek(df, is_driver, weekly[i].week_start))
        /\ 0 <= weekly[i].driver_adds
        /\ weekly[i].driver_adds <= weekly[i].total_adds
        /\ 0 <= weekly[i].share /\ weekly[i].share <= Scale

SmoothedSharesInRange(spine) ==
    \A i \in 1..Len(spine) : 0 <= spine[i].share_4w /\ spine[i].share_4w <= Scale

\* the weekly table of the segment, before smoothing
WeeklyOf(df, tier) ==
    WithShare(WeeklyTable(WeeklyUnique(df), WeeklyUnique(FlaggedRows(df, tier))))

\* the counts and the shares of the check called are as claimed
CountsAndSharesOf(df, tier) ==
    /\ CountsDistinctIds(WeeklyOf(df, tier), df,
                         [n \in { df[i].product_name : i \in 1..Len(df) } |-> TierFlag(tier, n)])
    /\ SmoothedSharesInRange(RegimeSpine(df, tier))

\* a regime-shift check was called on a table that holds records of its segment
RegimeCheckOnSegment == call \in RegimeCalls /\ HasSegment(arg, SegmentOf(call))

\* C27 as stated: the weekly driver count is a count of distinct identifiers
\* within the weekly total, every weekly and smoothed share lies in [0, 1], and
\* the share_delta of every result with metrics lies in [-1, 1].
C27_SharesAndDeltaInRange_AsStated ==
    RegimeCheckOnSegment =>
        /\ CountsAndSharesOf(SelectSeq(arg, LAMBDA r : r.segment = SegmentOf(call)), TierOf(call))
        /\ "metrics" \in DOMAIN ret =>
              -Scale <= ret.metrics.share_delta /\ ret.metrics.share_delta <= Scale

\* C27 amended: the weekly driver count is a count of distinct identifiers within
\* the weekly total (an identifier repeated within a week counts once, a week
\* without a driver-tier record counts 0), every weekly and smoothed share lies
\* in [0, 1], and share_delta lies in [-1, 1] whenever it is defined; it is
\* undefined exactly when the premium-shift check finds its pre-regime empty.
C27_SharesInRangeDeltaWhenDefined ==
    RegimeCheckOnSegment =>
        /\ CountsAndSharesOf(SelectSeq(arg, LAMBDA r : r.segment = SegmentOf(call)), TierOf(call))
        /\ "metrics" \in DOMAIN ret =>
              /\ ret.metrics.share_delta # NaN =>
                    -Scale <= ret.metrics.share_delta /\ ret.metrics.share_delta <= Scale
              /\ ret.metrics.share_delta = NaN <=> EmptyPreRegime

\* every identifier occurs twice in its week, once under a value-tier name and
\* once under another name; the value share rises between the two regimes
C27_Witness ==
    /\ RegimeCheckOnSegment
    /\ call = "_detect_postpaid_driver"
    /\ \E i, j \in 1..Len(arg) :
          /\ i # j
          /\ arg[i].unique_subscription_id = arg[j].unique_subscription_id
          /\ arg[i].week_start = arg[j].week_start
          /\ IsValueTier(arg[i].product_name) /\ ~IsValueTier(arg[j].product_name)
    /\ "metrics" \in DOMAIN ret
    /\ ret.metrics.share_delta > 0
    /\ ret.metrics.share_delta < Scale

=============================================================================
